---- MODULE Spec2Model ----
(***************************************************************************)
(* Clipster: clipboard capture and history engine.                         *)
(*                                                                         *)
(* The model covers the history store (storage/database.rs), the capture  *)
(* pipeline and the polling monitor thread (clipboard/clipboard_monitor.rs)*)
(* the image files it writes (storage/file_storage.rs) and the start/stop  *)
(* lifecycle of the monitor.                                               *)
(*                                                                         *)
(* Strings are sequences of one-character strings so that trim() can be   *)
(* computed.  Item ids (UUID v4) are fresh integers; created_at is read    *)
(* from a wall clock that is taken to advance between two item creations.  *)
(***************************************************************************)
EXTENDS Integers, Sequences, FiniteSets, TLC

\* ------------------------------------------------------------------------
\* Bounds of the model
\* ------------------------------------------------------------------------
\* number of clipboard writes the environment performs
MaxWrites == 2
\* number of start_monitoring / stop_monitoring calls made over a run
MaxCalls == 3
\* number of clipboard writes in the runs that exercise the capture pipeline
MaxDeliveries == 3
\* number of clipboard writes in the runs with pinboards and with the wall
\* clock
MaxCopies == 2
\* number of clipboard writes in the runs that classify payloads
MaxClassified == 1
MaxErrors == 1
\* number of foreground command handlers that run next to the monitor
MaxHandlers == 2
\* number of clipboard writes in the runs with command handlers
MaxHandlerCopies == 1

\* ------------------------------------------------------------------------
\* Program constants
\* ------------------------------------------------------------------------
\* width of usize / i64 (64 in the build; scaled so that values fit)
WordBits == 16
\* value of LAST_IMAGE_HASH before any image was seen
InitialImageHash == 0
\* bytes of an image that enter its fingerprint
HashPrefixLen == 2

\* byte offset of the debug preview cut of process_text (100 in the build;
\* scaled to the length of the model's texts)
PreviewCut == 2
\* byte offset of the debug preview cut of save_and_emit (50 in the build)
RowPreviewCut == 1

UsizeMax == 2^WordBits - 1
I64Max == 2^(WordBits - 1) - 1

\* ------------------------------------------------------------------------
\* Value domains
\* ------------------------------------------------------------------------
\* every start_monitoring call spawns at most one thread
Tids == 1..MaxCalls
CallerIds == {1, 2}
\* foreground command handlers (threads of the command layer)
Handlers == 1..MaxHandlers

NoPin == "NULL"
NoApp == "NULL"
NoIcon == "NULL"
\* no application name and no icon: the lookup found nothing
NoSource == [app |-> NoApp, icon |-> NoIcon]
NoText == <<"NULL">>
NoId == 0
NoTid == 0
NoCaller == 0

Whitespace == {" ", "\n", "\t"}

TextA == <<"a">>
TextB == <<"b">>
TextBlank == <<" ">>
Texts == {TextA, TextB, TextBlank}
\* texts longer than the preview cuts: ASCII only, and with a two-byte
\* character across the cut of process_text or of save_and_emit
TextLong == <<"l", "o", "n", "g">>
TextMulti == <<"a", "U+00E9", "z">>
TextMultiRow == <<"U+00E9", "a", "z">>
LongTexts == {TextLong, TextMulti, TextMultiRow}

FileF == <<"f">>
FileLists == {<<FileF>>}

\* raw image bytes: the first HashPrefixLen bytes are fingerprinted; the
\* first byte stands for the format signature the decoder looks for
ImagePng == <<1, 1, 1>>
ImageGarbled == <<0, 1, 1>>
Images == {ImagePng}
NoPath == <<>>

PinboardIds == {"p1"}
\* pinboards of the runs that create and delete them
BoardIds == {"p1", "p2"}

\* values a caller can store under the history_limit key
LimitStrings == {"0", "1", "500", "usize::MAX", "abc"}

ContentNone == [type |-> "none", text |-> <<>>, files |-> <<>>, png_data |-> <<>>]
ContentEmpty == [type |-> "empty", text |-> <<>>, files |-> <<>>, png_data |-> <<>>]
ContentText(s) == [type |-> "text", text |-> s, files |-> <<>>, png_data |-> <<>>]
ContentFiles(fs) == [type |-> "files", text |-> <<>>, files |-> fs, png_data |-> <<>>]
ContentImage(b) == [type |-> "image", text |-> <<>>, files |-> <<>>, png_data |-> b]

\* states of the OS clipboard: cleared, an unsupported format, or a payload
Contents ==
    {ContentNone, ContentEmpty}
      \cup {ContentText(s) : s \in Texts}
      \cup {ContentFiles(fs) : fs \in FileLists}
      \cup {ContentImage(b) : b \in Images}

\* the step of a capture that fails: none, the lookup of move-to-top, the
\* encoded save of an image, every write to the images directory, the
\* insert, the read of history_limit, the prune, the emit
Faults == {"none", "lookup", "save_image", "disk", "insert", "limit", "prune", "emit"}
\* the steps a capture of the given kind goes through
FaultsOf(type) ==
    CASE type \in {"text", "files"} -> Faults \ {"save_image", "disk"}
      [] type = "image" -> Faults \ {"lookup"}
      [] OTHER -> {"none"}

VARIABLES
    items,              \* rows of clipboard_items
    pinboards,          \* ids of the rows of pinboards
    history_limit,      \* settings['history_limit']
    nextId,             \* ids handed out so far + 1
    now,                \* wall clock
    clipboard,          \* OS clipboard content
    changeCount,        \* NSPasteboard changeCount
    tpc,                \* position of each monitor thread
    last_change_count,  \* local of each monitor thread
    LAST_IMAGE_HASH,
    SHOULD_STOP,
    MONITOR_HANDLE,     \* Option<JoinHandle>: NoTid or a thread
    monitor_mutex,      \* caller holding the MONITOR_HANDLE mutex
    cpc,                \* position of each caller of start/stop
    joining,            \* handle taken by a caller in stop_monitoring
    nextTid,
    calls,              \* start/stop calls made so far
    ret,                \* how each caller's last call ended
    last,               \* the last store operation and its outcome
    accepted,           \* fingerprint of the last accepted capture
    pureRun,            \* only fault-free fresh captures since the limit was set
    image_files,        \* files of the images directory: path and content
    conn,               \* Database.conn: the thread holding the Mutex<Connection>
    cap,                \* locals of the capture the monitor thread is in
    fpc,                \* position and request of each command handler
    frontmost           \* the application in the foreground: name and icon

vars == <<items, pinboards, history_limit, nextId, now, clipboard, changeCount,
          tpc, last_change_count, LAST_IMAGE_HASH, SHOULD_STOP, MONITOR_HANDLE,
          monitor_mutex, cpc, joining, nextTid, calls, ret, last, accepted, pureRun,
          image_files, conn, cap, fpc, frontmost>>

\* the lock and the threads' positions inside store operations, which only
\* the stepwise actions change
stepVars == <<conn, cap, fpc>>
storeVars == <<items, pinboards, history_limit, nextId, now, image_files, stepVars>>
lifeVars == <<SHOULD_STOP, MONITOR_HANDLE, monitor_mutex, cpc, joining, nextTid, calls, ret>>

\* ------------------------------------------------------------------------
\* Pure helpers
\* ------------------------------------------------------------------------
Min(a, b) == IF a < b THEN a ELSE b

\* str::trim().is_empty()
trim_is_empty(s) == \A k \in 1..Len(s) : s[k] \in Whitespace

RECURSIVE JoinQuoted(_)
JoinQuoted(fs) ==
    IF fs = <<>> THEN <<>>
    ELSE <<"\"">> \o Head(fs) \o <<"\"">>
           \o (IF Len(fs) > 1 THEN <<",">> ELSE <<>>) \o JoinQuoted(Tail(fs))

\* serde_json::to_string(&Vec<String>)
to_json(fs) == <<"[">> \o JoinQuoted(fs) \o <<"]">>

\* str::parse::<usize>() of the stored setting
ParseUsize(s) ==
    CASE s = "0" -> [ok |-> TRUE, val |-> 0]
      [] s = "1" -> [ok |-> TRUE, val |-> 1]
      [] s = "500" -> [ok |-> TRUE, val |-> 500]
      [] s = "usize::MAX" -> [ok |-> TRUE, val |-> UsizeMax]
      [] OTHER -> [ok |-> FALSE, val |-> 0]

\* char::to_lowercase for the letters of the model's strings
Lower(c) ==
    LET upper == <<"A", "B", "C", "D", "E", "F", "G", "H", "I", "J", "K", "L", "M",
                   "N", "O", "P", "Q", "R", "S", "T", "U", "V", "W", "X", "Y", "Z">>
        lower == <<"a", "b", "c", "d", "e", "f", "g", "h", "i", "j", "k", "l", "m",
                   "n", "o", "p", "q", "r", "s", "t", "u", "v", "w", "x", "y", "z">>
    IN  IF \E k \in 1..Len(upper) : upper[k] = c
        THEN lower[CHOOSE k \in 1..Len(upper) : upper[k] = c]
        ELSE c

\* str::to_lowercase
to_lowercase(s) == [k \in 1..Len(s) |-> Lower(s[k])]

\* str::starts_with, str::ends_with, str::contains(char)
starts_with(s, prefix) == Len(s) >= Len(prefix) /\ SubSeq(s, 1, Len(prefix)) = prefix
ends_with(s, suffix) ==
    Len(s) >= Len(suffix) /\ SubSeq(s, Len(s) - Len(suffix) + 1, Len(s)) = suffix
contains(s, c) == \E k \in 1..Len(s) : s[k] = c

\* str::trim
trim(s) ==
    LET solid == {k \in 1..Len(s) : s[k] \notin Whitespace}
    IN  IF solid = {} THEN <<>>
        ELSE SubSeq(s, CHOOSE k \in solid : \A j \in solid : k <= j,
                       CHOOSE k \in solid : \A j \in solid : j <= k)

\* "http://", "https://", "ftp://", "file://", "www."
UrlPrefixes ==
    {<<"h", "t", "t", "p", ":", "/", "/">>,
     <<"h", "t", "t", "p", "s", ":", "/", "/">>,
     <<"f", "t", "p", ":", "/", "/">>,
     <<"f", "i", "l", "e", ":", "/", "/">>,
     <<"w", "w", "w", ".">>}

\* a URL test that accepts text of several lines
is_url_multiline(text) ==
    LET lower == to_lowercase(text)
    IN  IF \E prefix \in UrlPrefixes : starts_with(lower, prefix)
        THEN contains(text, ".")
        ELSE FALSE

\* ContentType::is_url
is_url(text) ==
    LET lower == to_lowercase(text)
    IN  IF \E prefix \in UrlPrefixes : starts_with(lower, prefix)
        THEN ~contains(text, "\n") /\ contains(text, ".")
        ELSE FALSE

\* ContentType::detect_from_text
detect_from_text(text) ==
    LET trimmed == trim(text)
    IN  IF is_url(trimmed) THEN "link" ELSE "text"

audio_extensions ==
    {<<"m", "p", "3">>,
     <<"w", "a", "v">>,
     <<"f", "l", "a", "c">>,
     <<"a", "a", "c">>,
     <<"o", "g", "g">>,
     <<"w", "m", "a">>,
     <<"m", "4", "a">>,
     <<"a", "i", "f", "f">>,
     <<"a", "l", "a", "c">>,
     <<"o", "p", "u", "s">>}

document_extensions ==
    {<<"p", "d", "f">>,
     <<"d", "o", "c">>,
     <<"d", "o", "c", "x">>,
     <<"x", "l", "s">>,
     <<"x", "l", "s", "x">>,
     <<"p", "p", "t">>,
     <<"p", "p", "t", "x">>,
     <<"o", "d", "t">>,
     <<"o", "d", "s">>,
     <<"o", "d", "p">>,
     <<"p", "a", "g", "e", "s">>,
     <<"n", "u", "m", "b", "e", "r", "s">>,
     <<"k", "e", "y", "n", "o", "t", "e">>,
     <<"r", "t", "f">>,
     <<"t", "x", "t">>,
     <<"c", "s", "v">>}

\* a classification that asks for one audio file, not for all
detect_from_files_any(paths) ==
    LET has(path, exts) == \E ext \in exts : ends_with(to_lowercase(path), <<".">> \o ext)
        all_audio == paths # <<>> /\ \E k \in 1..Len(paths) : has(paths[k], audio_extensions)
        all_documents ==
            paths # <<>> /\ \E k \in 1..Len(paths) : has(paths[k], document_extensions)
    IN  IF all_audio THEN "audio" ELSE IF all_documents THEN "documents" ELSE "files"

\* ContentType::detect_from_files
detect_from_files(paths) ==
    LET has(path, exts) == \E ext \in exts : ends_with(to_lowercase(path), <<".">> \o ext)
        all_audio == paths # <<>> /\ \A k \in 1..Len(paths) : has(paths[k], audio_extensions)
        all_documents ==
            paths # <<>> /\ \A k \in 1..Len(paths) : has(paths[k], document_extensions)
    IN  IF all_audio THEN "audio" ELSE IF all_documents THEN "documents" ELSE "files"

\* UTF-8 length of a character and of a string
Utf8Len(c) == IF c = "U+00E9" THEN 2 ELSE 1

RECURSIVE ByteLen(_)
ByteLen(s) == IF s = <<>> THEN 0 ELSE Utf8Len(Head(s)) + ByteLen(Tail(s))

\* str::is_char_boundary
is_char_boundary(s, n) == \E k \in 0..Len(s) : ByteLen(SubSeq(s, 1, k)) = n

\* `if s.len() > cut { &s[..cut] }`: the slice panics when the cut falls
\* inside a character
preview_panics(s, cut) == ByteLen(s) > cut /\ ~is_char_boundary(s, cut)

\* image::load_from_memory recognises the format by the leading signature
load_from_memory(png_data) == png_data # <<>> /\ Head(png_data) = Head(ImagePng)

\* FileStorage::get_image_path
get_image_path(id) == <<"images", id, ".png">>

\* `keep_count as i64`
AsI64(v) == IF v > I64Max THEN v - 2^WordBits ELSE v

\* DefaultHasher over the prefix; distinct prefixes of the model hash apart
RECURSIVE hash_bytes(_)
hash_bytes(data) ==
    IF data = <<>> THEN 7 ELSE (31 * hash_bytes(Tail(data)) + Head(data) + 1) % 65521

Prefix(data) == SubSeq(data, 1, Min(HashPrefixLen, Len(data)))

\* ------------------------------------------------------------------------
\* The store (storage/database.rs)
\* ------------------------------------------------------------------------
Ids(its) == {i.id : i \in its}
Unpinned(its) == {i \in its : i.pin = NoPin}
Eligible(its) == {i \in its : ~i.fav /\ i.pin = NoPin}
WithText(its, t) == {i \in its : i.content_text = t}

\* ClipboardItem::new_text / new_files_with_thumbnail / new_image
NewItem(id, ctype, text, created) ==
    [id |-> id, content_type |-> ctype, content_text |-> text,
     created_at |-> created, pin |-> NoPin, fav |-> FALSE, image_path |-> NoPath,
     source_app |-> NoApp, source_app_icon |-> NoIcon]

\* the item with the provenance given to its constructor
WithSource(item, source) ==
    [item EXCEPT !.source_app = source.app, !.source_app_icon = source.icon]

\* get_source_app_info: get_frontmost_app_info
get_source_app_info == frontmost

\* ClipboardItem::new_image
new_image(id, image_path, created) ==
    [NewItem(id, "image", NoText, created) EXCEPT !.image_path = image_path]

\* Database::insert_item
insert_item(its, item) == its \cup {item}

\* a move-to-top that matches rows whatever their pinboard_id
delete_by_content(its, content_text) ==
    LET matching == {i \in its : i.content_text = content_text}
    IN  IF matching = {}
        THEN {[existing |-> NoId, items |-> its]}
        ELSE {[existing |-> e.id, items |-> its \ matching] : e \in matching}

\* a move-to-top that deletes only the row its SELECT returned
delete_selected_by_content(its, content_text) ==
    LET matching == {i \in its : i.content_text = content_text /\ i.pin = NoPin}
    IN  IF matching = {}
        THEN {[existing |-> NoId, items |-> its]}
        ELSE {[existing |-> e.id, items |-> its \ {e}] : e \in matching}

\* a move-to-top that reports a pinned row with the payload as replaced
delete_unpinned_reporting_pinned(its, content_text) ==
    LET matching == {i \in its : i.content_text = content_text /\ i.pin = NoPin}
        found == {i \in its : i.content_text = content_text}
    IN  IF found = {}
        THEN {[existing |-> NoId, items |-> its]}
        ELSE {[existing |-> e.id, items |-> its \ matching] : e \in found}

\* Database::delete_unpinned_by_content: the possible results, one per row the
\* SELECT ... LIMIT 1 may return
delete_unpinned_by_content(its, content_text) ==
    LET matching == {i \in its : i.content_text = content_text /\ i.pin = NoPin}
    IN  IF matching = {}
        THEN {[existing |-> NoId, items |-> its]}
        ELSE {[existing |-> e.id, items |-> its \ matching] : e \in matching}

\* a prune that orders by created_at ascending and so keeps the oldest rows
prune_newest(its, keep_count) ==
    LET offset == IF AsI64(keep_count) < 0 THEN 0 ELSE AsI64(keep_count)
        candidates == {i \in its : ~i.fav /\ i.pin = NoPin}
        older(i) == {j \in candidates : j.created_at < i.created_at}
        doomed == {i \in candidates : Cardinality(older(i)) >= offset}
    IN  its \ doomed

\* a prune that keeps one row more than asked for
prune_oldest_lenient(its, keep_count) ==
    LET offset == IF AsI64(keep_count) < 0 THEN 0 ELSE AsI64(keep_count)
        candidates == {i \in its : ~i.fav /\ i.pin = NoPin}
        newer(i) == {j \in candidates : j.created_at > i.created_at}
        doomed == {i \in candidates : Cardinality(newer(i)) >= offset + 1}
    IN  its \ doomed

\* Database::prune_oldest
prune_oldest(its, keep_count) ==
    LET offset == IF AsI64(keep_count) < 0 THEN 0 ELSE AsI64(keep_count)
        candidates == {i \in its : ~i.fav /\ i.pin = NoPin}
        newer(i) == {j \in candidates : j.created_at > i.created_at}
        doomed == {i \in candidates : Cardinality(newer(i)) >= offset}
    IN  its \ doomed

\* Database::get_history_limit
get_history_limit(setting) == ParseUsize(setting)

\* a clear that spares pinned rows only
clear_unpinned(its) == {i \in its : i.pin # NoPin}

\* Database::clear_history
clear_history(its) == {i \in its : ~(~i.fav /\ i.pin = NoPin)}

\* Database::delete_item
delete_item(its, id) == {i \in its : i.id # id}

\* Database::get_item: the row with the id, if any (Option)
get_item(its, id) == {i \in its : i.id = id}

\* a statement that always reports one row
rows_affected_one(its, id) == 1

\* rows_affected of a DELETE or UPDATE ... WHERE id = ?
rows_affected(its, id) == Cardinality({i \in its : i.id = id})

\* a listing ordered by created_at ascending
get_items_oldest_first(its, limit, offset) ==
    LET rows == Unpinned(its)
        n == Cardinality(rows)
        ordered == {s \in [1..n -> rows] :
                      /\ \A a, b \in 1..n : a # b => s[a] # s[b]
                      /\ \A a, b \in 1..n : a < b => s[a].created_at <= s[b].created_at}
    IN  {SubSeq(s, offset + 1, Min(offset + limit, n)) : s \in ordered}

\* Database::get_items: the unpinned rows, newest first, LIMIT limit OFFSET
\* offset; rows with equal created_at come in either order
get_items(its, limit, offset) ==
    LET rows == Unpinned(its)
        n == Cardinality(rows)
        ordered == {s \in [1..n -> rows] :
                      /\ \A a, b \in 1..n : a # b => s[a] # s[b]
                      /\ \A a, b \in 1..n : a < b => s[a].created_at >= s[b].created_at}
    IN  {SubSeq(s, offset + 1, Min(offset + limit, n)) : s \in ordered}

\* Database::count_items
count_items(its) == Cardinality({i \in its : i.pin = NoPin})

\* whether SQLite enforces the FOREIGN KEY clause of clipboard_items: the
\* default of the SQLite build the application links
foreign_keys == TRUE

\* a schema whose foreign key reads ON DELETE CASCADE
delete_pinboard_cascade(its, pbs, id) ==
    [items |-> {i \in its : i.pin # id}, pinboards |-> pbs \ {id}]

\* Database::delete_pinboard: DELETE FROM pinboards, and the ON DELETE SET
\* NULL action of clipboard_items.pinboard_id
delete_pinboard(its, pbs, id) ==
    [items |-> IF foreign_keys /\ id \in pbs
               THEN {IF i.pin = id THEN [i EXCEPT !.pin = NoPin] ELSE i : i \in its}
               ELSE its,
     pinboards |-> pbs \ {id}]

\* Database::toggle_item_favorite
toggle_item_favorite(its, id) ==
    {IF i.id = id THEN [i EXCEPT !.fav = ~i.fav] ELSE i : i \in its}

\* Database::update_item_pinboard
update_item_pinboard(its, id, pinboard_id) ==
    {IF i.id = id THEN [i EXCEPT !.pin = pinboard_id] ELSE i : i \in its}

\* ------------------------------------------------------------------------
\* The capture pipeline (clipboard/clipboard_monitor.rs)
\* ------------------------------------------------------------------------
NoLast ==
    [op |-> "none", type |-> "none", outcome |-> "none", text |-> NoText,
     newId |-> NoId, replaced |-> NoId, fault |-> "none",
     pruneK |-> -1, pruneN |-> 0, emitted |-> FALSE, evReplaced |-> NoId,
     again |-> FALSE, used |-> 0, file |-> NoPath, evItem |-> NoId,
     png |-> <<>>, arg |-> NoId, queried |-> FALSE,
     errors |-> 0]

CmdLast == [NoLast EXCEPT !.op = "cmd"]

\* holders of the Mutex<Connection>
NoHolder == [kind |-> "none", id |-> 0]
Monitor(t) == [kind |-> "monitor", id |-> t]
Handler(h) == [kind |-> "handler", id |-> h]

\* locals of process_text / process_image / save_and_emit between two steps
NoCap == [content |-> ContentNone, item |-> NewItem(NoId, "none", NoText, 0),
          replaced |-> NoId, limit |-> 0]

\* a command handler: not called yet, waiting for the lock, inside the store
\* operation, returned
IdleHandler == [pc |-> "idle", op |-> "none", id |-> NoId, result |-> <<>>]

\* what the hash-gate of the design compares: the kind and the content
NoFingerprint == [type |-> "none", text |-> NoText, hash |-> InitialImageHash]
Fingerprint(content) ==
    CASE content.type = "text" -> [type |-> "text", text |-> content.text, hash |-> InitialImageHash]
      [] content.type = "files" ->
           [type |-> "files", text |-> to_json(content.files), hash |-> InitialImageHash]
      [] content.type = "image" ->
           [type |-> "image", text |-> NoText, hash |-> hash_bytes(Prefix(content.png_data))]
      [] OTHER -> NoFingerprint

SkipLast(type, text) ==
    [NoLast EXCEPT !.op = "capture", !.type = type, !.outcome = "skipped", !.text = text]

\* the capture ended in a panic that unwinds the monitor thread
PanicLast(type, text) ==
    [NoLast EXCEPT !.op = "capture", !.type = type, !.outcome = "panic", !.text = text]

\* a save that notifies the frontend although the insert failed
save_and_emit_eager(its, item, replaced_item_id, setting, fault, type) ==
    [items |-> IF fault = "insert" THEN its ELSE insert_item(its, item),
     last |-> [NoLast EXCEPT !.op = "capture", !.type = type,
                  !.outcome = IF fault = "insert" THEN "lost" ELSE "inserted",
                  !.text = item.content_text, !.newId = item.id,
                  !.replaced = replaced_item_id, !.fault = fault, !.used = 1,
                  !.emitted = TRUE, !.evItem = item.id, !.evReplaced = replaced_item_id]]

\* a save whose notification never names the replaced item
save_and_emit_anonymous(its, item, replaced_item_id, setting, fault, type) ==
    [items |-> IF fault = "insert" THEN its ELSE insert_item(its, item),
     last |-> [NoLast EXCEPT !.op = "capture", !.type = type,
                  !.outcome = IF fault = "insert" THEN "lost" ELSE "inserted",
                  !.text = item.content_text, !.newId = item.id,
                  !.replaced = replaced_item_id, !.fault = fault, !.used = 1,
                  !.emitted = (fault \notin {"insert", "emit"}),
                  !.evItem = IF fault \notin {"insert", "emit"} THEN item.id ELSE NoId]]

\* a save that takes the inserted row back when a later step fails
save_and_emit_unwinding(its, item, replaced_item_id, setting, fault, type) ==
    [items |-> IF fault = "none" THEN insert_item(its, item) ELSE its,
     last |-> [NoLast EXCEPT !.op = "capture", !.type = type,
                  !.outcome = IF fault = "insert" THEN "lost" ELSE "inserted",
                  !.text = item.content_text, !.newId = item.id,
                  !.replaced = replaced_item_id, !.fault = fault, !.used = 1,
                  !.emitted = (fault \notin {"insert", "emit"}),
                  !.evItem = IF fault \notin {"insert", "emit"} THEN item.id ELSE NoId,
                  !.evReplaced = IF fault \notin {"insert", "emit"}
                                 THEN replaced_item_id ELSE NoId]]

\* ClipboardMonitorHandler::save_and_emit: the store and the outcome record
\* after inserting `item`
save_and_emit(its, item, replaced_item_id, setting, fault, type) ==
    IF item.content_text # NoText /\ preview_panics(item.content_text, RowPreviewCut)
    THEN [items |-> its,
          last |-> [PanicLast(type, item.content_text) EXCEPT
                       !.newId = item.id, !.replaced = replaced_item_id,
                       !.fault = fault, !.used = 1]]
    ELSE IF fault = "insert"
    THEN [items |-> its,
          last |-> [NoLast EXCEPT !.op = "capture", !.type = type, !.outcome = "lost",
                       !.text = item.content_text, !.newId = item.id,
                       !.replaced = replaced_item_id, !.fault = fault, !.used = 1]]
    ELSE LET inserted == insert_item(its, item)
             limit == get_history_limit(setting)
             pruning == limit.ok /\ fault # "limit" /\ fault # "prune"
             after == IF pruning THEN prune_oldest(inserted, limit.val) ELSE inserted
         IN  [items |-> after,
              last |-> [NoLast EXCEPT !.op = "capture", !.type = type,
                           !.outcome = "inserted",
                           !.text = item.content_text, !.newId = item.id,
                           !.replaced = replaced_item_id, !.fault = fault,
                           !.used = 1,
                           !.pruneK = IF pruning THEN limit.val ELSE -1,
                           !.pruneN = IF pruning THEN Cardinality(Eligible(inserted)) ELSE 0,
                           !.emitted = (fault # "emit"),
                           !.evItem = IF fault # "emit" THEN item.id ELSE NoId,
                           !.evReplaced = IF fault # "emit" THEN replaced_item_id ELSE NoId]]

\* a move-to-top that asks for the foreground application every time
MoveToTopAndSaveQuerying(its, content_text, ctype, type, id, created, setting, fault) ==
    LET results == IF fault = "lookup"
                   THEN {[existing |-> NoId, items |-> its]}
                   ELSE delete_unpinned_by_content(its, content_text)
        item == WithSource(NewItem(id, ctype, content_text, created), get_source_app_info)
        saved(r) == save_and_emit(r.items, item, r.existing, setting, fault, type)
    IN  {[items |-> saved(r).items, last |-> [saved(r).last EXCEPT !.queried = TRUE]] :
            r \in results}

\* move-to-top followed by save_and_emit, shared by process_text and
\* process_files: the possible results for one payload. The provenance of
\* the row the lookup returned is reused when it names an application.
MoveToTopAndSave(its, content_text, ctype, type, id, created, setting, fault) ==
    LET results == IF fault = "lookup"
                   THEN {[existing |-> NoId, items |-> its]}
                   ELSE delete_unpinned_by_content(its, content_text)
        original(r) == {i \in its : i.id = r.existing}
        reuse(r) == \E i \in original(r) : i.source_app # NoApp
        source(r) == IF reuse(r)
                     THEN LET i == CHOOSE i \in original(r) : TRUE
                          IN  [app |-> i.source_app, icon |-> i.source_app_icon]
                     ELSE get_source_app_info
        item(r) == WithSource(NewItem(id, ctype, content_text, created), source(r))
        saved(r) == save_and_emit(r.items, item(r), r.existing, setting, fault, type)
    IN  {[items |-> saved(r).items,
          last |-> [saved(r).last EXCEPT !.queried = ~reuse(r)]] : r \in results}

\* a text capture that inserts without the move-to-top delete
process_text_append(its, text, id, created, setting, fault) ==
    IF preview_panics(text, PreviewCut)
    THEN {[items |-> its, last |-> PanicLast("text", text)]}
    ELSE IF trim_is_empty(text)
    THEN {[items |-> its, last |-> SkipLast("text", text)]}
    ELSE {save_and_emit(its, NewItem(id, detect_from_text(text), text, created), NoId,
                        setting, fault, "text")}

\* ClipboardMonitorHandler::process_text
process_text(its, text, id, created, setting, fault) ==
    IF preview_panics(text, PreviewCut)
    THEN {[items |-> its, last |-> PanicLast("text", text)]}
    ELSE IF trim_is_empty(text)
    THEN {[items |-> its, last |-> SkipLast("text", text)]}
    ELSE MoveToTopAndSave(its, text, detect_from_text(text), "text", id, created, setting,
                          fault)

\* a file capture that stores the empty list too
process_files_unchecked(its, files, id, created, setting, fault) ==
    MoveToTopAndSave(its, to_json(files), detect_from_files(files), "files", id,
                     created, setting, fault)

\* ClipboardMonitorHandler::process_files
process_files(its, files, id, created, setting, fault) ==
    IF files = <<>>
    THEN {[items |-> its, last |-> SkipLast("files", to_json(files))]}
    ELSE MoveToTopAndSave(its, to_json(files), detect_from_files(files), "files", id,
                          created, setting, fault)

\* FileStorage::save_image writes the decoded image re-encoded as PNG, bytes
\* that differ from the ones captured; FileStorage::save_png_bytes writes the
\* bytes it is given
encode_png(png_data) == png_data \o <<Len(png_data)>>
write_file(disk, path, content) ==
    {f \in disk : f.path # path} \cup {[path |-> path, content |-> content]}

\* an image save that also runs the move-to-top of texts and files
save_image_item_move_to_top(its, disk, id, content, created, setting, fault) ==
    LET path == get_image_path(id)
        olds == {i \in its : i.content_type = "image" /\ i.pin = NoPin}
        replaced == IF olds = {} THEN NoId ELSE (CHOOSE i \in olds : TRUE).id
        r == save_and_emit(its \ olds, new_image(id + 1, path, created), replaced,
                           setting, fault, "image")
    IN  [items |-> r.items,
         disk |-> write_file(disk, path, content),
         last |-> [r.last EXCEPT !.used = 2, !.file = path]]

\* the image item built for the file at get_image_path(id), saved and
\* emitted: new_image draws the item's id, the next fresh one
save_image_item(its, disk, id, content, created, setting, fault) ==
    LET path == get_image_path(id)
        item == WithSource(new_image(id + 1, path, created), get_source_app_info)
        r == save_and_emit(its, item, NoId, setting, fault, "image")
    IN  [items |-> r.items,
         disk |-> write_file(disk, path, content),
         last |-> [r.last EXCEPT !.used = 2, !.file = path, !.queried = TRUE]]

\* a fallback that gives the capture up instead of writing the raw bytes
save_raw_png_drop(its, disk, id, png_data, created, setting, fault) ==
    [items |-> its, disk |-> disk,
     last |-> [NoLast EXCEPT !.op = "capture", !.type = "image", !.outcome = "lost",
                  !.fault = fault, !.used = 1]]

\* ClipboardMonitorHandler::save_raw_png_and_emit
save_raw_png_and_emit(its, disk, id, png_data, created, setting, fault) ==
    IF fault = "disk"
    THEN [items |-> its, disk |-> disk,
          last |-> [NoLast EXCEPT !.op = "capture", !.type = "image", !.outcome = "lost",
                       !.fault = fault, !.used = 1]]
    ELSE save_image_item(its, disk, id, png_data, created, setting, fault)

\* an image capture without the raw-bytes fallback after a failed save
process_image_no_fallback(its, disk, png_data, id, created, setting, fault) ==
    IF load_from_memory(png_data) /\ fault \notin {"save_image", "disk"}
    THEN {save_image_item(its, disk, id, encode_png(png_data), created, setting, fault)}
    ELSE {save_raw_png_drop(its, disk, id, png_data, created, setting, fault)}

\* ClipboardMonitorHandler::process_image, after the hash-gate let it pass
process_image(its, disk, png_data, id, created, setting, fault) ==
    IF load_from_memory(png_data)
    THEN IF fault \in {"save_image", "disk"}
         THEN {save_raw_png_and_emit(its, disk, id, png_data, created, setting, fault)}
         ELSE {save_image_item(its, disk, id, encode_png(png_data), created, setting, fault)}
    ELSE {save_raw_png_and_emit(its, disk, id, png_data, created, setting, fault)}

\* ------------------------------------------------------------------------
\* Environment: the OS clipboard
\* ------------------------------------------------------------------------
\* another application writes (or clears) the clipboard
ClipboardWrite(c) ==
    /\ changeCount < MaxWrites
    /\ clipboard' = c
    /\ changeCount' = changeCount + 1
    /\ UNCHANGED <<storeVars, frontmost, tpc, last_change_count, LAST_IMAGE_HASH, lifeVars,
                   last, accepted, pureRun>>

\* clipboard_reader::pasteboard_has_content
pasteboard_has_content == clipboard.type # "none"

\* clipboard_reader::read_clipboard
read_clipboard == clipboard

\* ------------------------------------------------------------------------
\* The monitor thread, polling variant (platform::start_monitoring_impl)
\* ------------------------------------------------------------------------
Live(t) == tpc[t] \notin {"unborn", "exited", "panicked", "failed"}

\* ClipboardMonitorHandler::new and the first get_change_count
ThreadInit(t) ==
    /\ tpc[t] = "init"
    /\ last_change_count' = [last_change_count EXCEPT ![t] = changeCount]
    /\ tpc' = [tpc EXCEPT ![t] = "loop"]
    /\ UNCHANGED <<storeVars, frontmost, clipboard, changeCount, LAST_IMAGE_HASH, lifeVars,
                   last, accepted, pureRun>>

\* while !SHOULD_STOP.load()
ThreadCheck(t) ==
    /\ tpc[t] = "loop"
    /\ tpc' = [tpc EXCEPT ![t] = IF SHOULD_STOP THEN "exited" ELSE "sleep"]
    /\ UNCHANGED <<storeVars, frontmost, clipboard, changeCount, last_change_count,
                   LAST_IMAGE_HASH, lifeVars, last, accepted, pureRun>>

\* a poll that does not record the counter value it has seen
ThreadPollForgetful(t) ==
    /\ tpc[t] = "sleep"
    /\ tpc' = [tpc EXCEPT ![t] = IF changeCount # last_change_count[t]
                                 THEN "settle" ELSE "loop"]
    /\ UNCHANGED <<storeVars, frontmost, clipboard, changeCount, last_change_count,
                   LAST_IMAGE_HASH, lifeVars, last, accepted, pureRun>>

\* sleep(100ms); compare get_change_count() with last_change_count
ThreadPoll(t) ==
    /\ tpc[t] = "sleep"
    /\ IF changeCount # last_change_count[t]
       THEN /\ last_change_count' = [last_change_count EXCEPT ![t] = changeCount]
            /\ tpc' = [tpc EXCEPT ![t] = "settle"]
       ELSE /\ tpc' = [tpc EXCEPT ![t] = "loop"]
            /\ UNCHANGED last_change_count
    /\ UNCHANGED <<storeVars, frontmost, clipboard, changeCount, LAST_IMAGE_HASH, lifeVars,
                   last, accepted, pureRun>>

\* the results process_clipboard_change can produce for the content read:
\* the store, the outcome record and the fingerprint cell afterwards
process_clipboard_change(content, fault) ==
    LET keep(rs) == {[items |-> r.items, last |-> r.last, hash |-> LAST_IMAGE_HASH,
                      disk |-> image_files] : r \in rs}
    IN  CASE content.type = "text" ->
               keep(process_text(items, content.text, nextId, now, history_limit, fault))
          [] content.type = "files" ->
               keep(process_files(items, content.files, nextId, now, history_limit, fault))
          [] content.type = "image" ->
               LET image_hash == hash_bytes(Prefix(content.png_data))
               IN  IF image_hash = LAST_IMAGE_HASH
                   THEN {[items |-> items, last |-> SkipLast("image", NoText),
                          hash |-> LAST_IMAGE_HASH, disk |-> image_files]}
                   ELSE {[items |-> r.items, last |-> r.last, hash |-> image_hash,
                          disk |-> r.disk] :
                            r \in process_image(items, image_files, content.png_data,
                                                nextId, now, history_limit, fault)}
          [] OTHER ->
               {[items |-> items, last |-> SkipLast("empty", NoText),
                 hash |-> LAST_IMAGE_HASH, disk |-> image_files]}

\* the capture `cur` delivers again what the immediately preceding store
\* operation, the fault-free accepted capture `prev`, delivered
Redelivery(prev, cur) ==
    /\ prev.op = "capture" /\ prev.outcome = "inserted" /\ prev.fault = "none"
    /\ cur.outcome = "inserted" /\ cur.fault = "none"
    /\ cur.type = prev.type /\ cur.text = prev.text

\* sleep(50ms); pasteboard_has_content(); handler.process_clipboard_change()
ThreadDispatch(t) ==
    /\ tpc[t] = "settle"
    /\ IF pasteboard_has_content
       THEN \E fault \in FaultsOf(read_clipboard.type) :
              \E r \in process_clipboard_change(read_clipboard, fault) :
                /\ tpc' = [tpc EXCEPT ![t] = IF r.last.outcome = "panic"
                                             THEN "panicked" ELSE "loop"]
                /\ items' = r.items
                /\ image_files' = r.disk
                /\ last' = [r.last EXCEPT !.again = Redelivery(last, r.last),
                                          !.png = read_clipboard.png_data]
                /\ LAST_IMAGE_HASH' = r.hash
                /\ nextId' = nextId + r.last.used
                /\ now' = IF r.last.newId # NoId THEN now + 1 ELSE now
                /\ accepted' = IF r.last.outcome = "inserted"
                               THEN Fingerprint(read_clipboard) ELSE accepted
                /\ pureRun' = /\ pureRun
                              /\ r.last.outcome = "inserted" =>
                                   r.last.replaced = NoId /\ r.last.fault = "none"
                              /\ r.last.outcome \notin {"lost", "panic"}
       ELSE /\ tpc' = [tpc EXCEPT ![t] = "loop"]
            /\ UNCHANGED <<items, image_files, last, LAST_IMAGE_HASH, nextId, now,
                           accepted, pureRun>>
    /\ UNCHANGED <<pinboards, history_limit, clipboard, changeCount,
                   last_change_count, lifeVars, stepVars, frontmost>>

\* ------------------------------------------------------------------------
\* Foreground commands (commands/*.rs), each one store operation
\* ------------------------------------------------------------------------
cmdFrame == <<nextId, now, image_files, clipboard, changeCount, tpc, last_change_count,
              LAST_IMAGE_HASH, lifeVars, accepted, stepVars, frontmost>>

\* toggle_favorite
ToggleFavorite(id) ==
    /\ id \in Ids(items)
    /\ items' = toggle_item_favorite(items, id)
    /\ last' = CmdLast
    /\ pureRun' = FALSE
    /\ UNCHANGED <<pinboards, history_limit, cmdFrame>>

\* assign_to_pinboard / add_item_to_pinboard
AssignToPinboard(id, pb) ==
    /\ id \in Ids(items)
    /\ pb \in pinboards
    /\ items' = update_item_pinboard(items, id, pb)
    /\ last' = CmdLast
    /\ pureRun' = FALSE
    /\ UNCHANGED <<pinboards, history_limit, cmdFrame>>

\* remove_item_from_pinboard
RemoveFromPinboard(id) ==
    /\ id \in Ids(items)
    /\ items' = update_item_pinboard(items, id, NoPin)
    /\ last' = CmdLast
    /\ pureRun' = FALSE
    /\ UNCHANGED <<pinboards, history_limit, cmdFrame>>

\* delete_clipboard_item
DeleteItem(id) ==
    /\ id \in Ids(items)
    /\ items' = delete_item(items, id)
    /\ last' = CmdLast
    /\ pureRun' = FALSE
    /\ UNCHANGED <<pinboards, history_limit, cmdFrame>>

\* clear_clipboard_history
ClearHistory ==
    /\ items' = clear_history(items)
    /\ last' = [CmdLast EXCEPT !.op = "clear_history"]
    /\ pureRun' = FALSE
    /\ UNCHANGED <<pinboards, history_limit, cmdFrame>>

\* create_pinboard
CreatePinboard(pb) ==
    /\ pb \notin pinboards
    /\ pinboards' = pinboards \cup {pb}
    /\ last' = CmdLast
    /\ UNCHANGED <<items, history_limit, pureRun, cmdFrame>>

\* delete_pinboard
DeletePinboard(pb) ==
    /\ LET r == delete_pinboard(items, pinboards, pb)
       IN  /\ items' = r.items
           /\ pinboards' = r.pinboards
    /\ last' = [CmdLast EXCEPT !.op = "delete_pinboard"]
    /\ pureRun' = FALSE
    /\ UNCHANGED <<history_limit, cmdFrame>>

\* update_setting("history_limit", value)
UpdateSetting(value) ==
    /\ history_limit' = value
    /\ last' = CmdLast
    /\ pureRun' = (pureRun /\ nextId = 1)
    /\ UNCHANGED <<items, pinboards, cmdFrame>>

\* ------------------------------------------------------------------------
\* Specification of the running application: the monitor started by main()
\* polls while the user issues commands
\* ------------------------------------------------------------------------
\* Database::new opens the database file of the previous run: the store starts
\* empty (first run) or with what an earlier run left, here one pinned text
PersistedStores ==
    {[items |-> {}, pinboards |-> {}, nextId |-> 1],
     [items |-> {[NewItem(1, "text", TextA, 1) EXCEPT !.pin = "p1"]},
      pinboards |-> {"p1"}, nextId |-> 2]}

Init ==
    /\ \E st \in PersistedStores :
         /\ items = st.items
         /\ pinboards = st.pinboards
         /\ nextId = st.nextId
         /\ now = st.nextId
         /\ pureRun = (st.items = {})
    /\ history_limit = "500"
    /\ clipboard = ContentNone
    /\ changeCount = 0
    /\ tpc = [t \in Tids |-> IF t = 1 THEN "init" ELSE "unborn"]
    /\ last_change_count = [t \in Tids |-> 0]
    /\ LAST_IMAGE_HASH = InitialImageHash
    /\ SHOULD_STOP = FALSE
    /\ MONITOR_HANDLE = 1
    /\ monitor_mutex = NoCaller
    /\ cpc = [c \in CallerIds |-> "idle"]
    /\ joining = [c \in CallerIds |-> NoTid]
    /\ nextTid = 2
    /\ calls = 0
    /\ ret = [c \in CallerIds |-> "none"]
    /\ last = NoLast
    /\ accepted = NoFingerprint
    /\ image_files = {}
    /\ conn = NoHolder
    /\ cap = NoCap
    /\ fpc = [h \in Handlers |-> IdleHandler]
    /\ frontmost = NoSource

Next ==
    \/ \E c \in Contents : ClipboardWrite(c)
    \/ \E t \in Tids : ThreadInit(t)
    \/ \E t \in Tids : ThreadCheck(t)
    \/ \E t \in Tids : ThreadPoll(t)
    \/ \E t \in Tids : ThreadDispatch(t)
    \/ \E id \in Ids(items) : ToggleFavorite(id)
    \/ \E id \in Ids(items), pb \in PinboardIds : AssignToPinboard(id, pb)
    \/ \E id \in Ids(items) : RemoveFromPinboard(id)
    \/ \E id \in Ids(items) : DeleteItem(id)
    \/ ClearHistory
    \/ \E pb \in PinboardIds : CreatePinboard(pb)
    \/ \E v \in LimitStrings : UpdateSetting(v)

Spec == Init /\ [][Next]_vars

\* ------------------------------------------------------------------------
\* Specification of the capture pipeline: the monitor polls while other
\* applications copy long texts and images and the limit setting changes
\* ------------------------------------------------------------------------
CaptureContents ==
    {ContentText(TextA)}
      \cup {ContentText(s) : s \in LongTexts}
      \cup {ContentImage(ImagePng), ContentImage(ImageGarbled)}

\* another application writes the clipboard
Deliver(c) ==
    /\ changeCount < MaxDeliveries
    /\ clipboard' = c
    /\ changeCount' = changeCount + 1
    /\ UNCHANGED <<storeVars, frontmost, tpc, last_change_count, LAST_IMAGE_HASH, lifeVars,
                   last, accepted, pureRun>>

CaptureNext ==
    \/ \E c \in CaptureContents : Deliver(c)
    \/ \E t \in Tids : ThreadInit(t)
    \/ \E t \in Tids : ThreadCheck(t)
    \/ \E t \in Tids : ThreadPoll(t)
    \/ \E t \in Tids : ThreadDispatch(t)
    \/ \E v \in LimitStrings : UpdateSetting(v)

CaptureSpec == Init /\ [][CaptureNext]_vars

\* ------------------------------------------------------------------------
\* Specification of the pinboards: the monitor captures texts while the user
\* creates and deletes pinboards, pins, stars and clears
\* ------------------------------------------------------------------------
BoardContents == {ContentText(TextA), ContentText(TextB)}
BoardLimits == {"1"}

\* another application copies
Copy(c) ==
    /\ changeCount < MaxCopies
    /\ clipboard' = c
    /\ changeCount' = changeCount + 1
    /\ UNCHANGED <<storeVars, frontmost, tpc, last_change_count, LAST_IMAGE_HASH, lifeVars,
                   last, accepted, pureRun>>

BoardNext ==
    \/ \E c \in BoardContents : Copy(c)
    \/ \E t \in Tids : ThreadInit(t)
    \/ \E t \in Tids : ThreadCheck(t)
    \/ \E t \in Tids : ThreadPoll(t)
    \/ \E t \in Tids : ThreadDispatch(t)
    \/ \E id \in Ids(items) : ToggleFavorite(id)
    \/ \E id \in Ids(items), pb \in BoardIds : AssignToPinboard(id, pb)
    \/ \E id \in Ids(items) : RemoveFromPinboard(id)
    \/ ClearHistory
    \/ \E pb \in BoardIds : CreatePinboard(pb)
    \/ \E pb \in BoardIds : DeletePinboard(pb)
    \/ \E v \in BoardLimits : UpdateSetting(v)

BoardSpec == Init /\ [][BoardNext]_vars

\* ------------------------------------------------------------------------
\* Specification of the polling loop: the monitor polls while texts are
\* copied, the clipboard is cleared and the wall clock is adjusted
\* ------------------------------------------------------------------------
PollContents == {ContentNone, ContentText(TextA), ContentText(TextB)}

\* the wall clock Utc::now() reads is set back (time synchronisation, the
\* user)
ClockSetBack ==
    /\ \E t \in 1..(now - 1) : now' = t
    /\ UNCHANGED <<items, pinboards, history_limit, nextId, image_files, clipboard,
                   changeCount, tpc, last_change_count, LAST_IMAGE_HASH, lifeVars,
                   last, accepted, pureRun, stepVars, frontmost>>

PollNext ==
    \/ \E c \in PollContents : Copy(c)
    \/ \E t \in Tids : ThreadInit(t)
    \/ \E t \in Tids : ThreadCheck(t)
    \/ \E t \in Tids : ThreadPoll(t)
    \/ \E t \in Tids : ThreadDispatch(t)
    \/ ClockSetBack

PollSpec == Init /\ [][PollNext]_vars

\* ------------------------------------------------------------------------
\* The capture and the commands step by step: every Database method takes
\* the Mutex<Connection> on entry and releases it when it returns
\* ------------------------------------------------------------------------
\* positions of the monitor thread waiting for the lock and inside a method
LockPositions == {"delete_lock", "insert_lock", "limit_lock", "prune_lock"}
InsidePositions == {"delete_in", "insert_in", "limit_in", "prune_in"}
Inside(pos) ==
    CASE pos = "delete_lock" -> "delete_in"
      [] pos = "insert_lock" -> "insert_in"
      [] pos = "limit_lock" -> "limit_in"
      [] pos = "prune_lock" -> "prune_in"

\* the payload a text or file capture stores
Payload(content) ==
    IF content.type = "text" THEN content.text ELSE to_json(content.files)

\* the content type new_text / new_files_with_thumbnail give the item
ContentTypeOf(content) ==
    IF content.type = "text" THEN detect_from_text(content.text)
    ELSE detect_from_files(content.files)

monitorFrame == <<pinboards, history_limit, clipboard, changeCount, last_change_count,
                  lifeVars, fpc, pureRun, frontmost>>

\* sleep(50ms); pasteboard_has_content(); read_clipboard(); the checks of
\* process_text / process_files / process_image before the first store call
MonitorRead(t) ==
    /\ tpc[t] = "settle"
    /\ LET c == read_clipboard
           image_hash == hash_bytes(Prefix(c.png_data))
           skip == \/ ~pasteboard_has_content
                   \/ c.type \notin {"text", "files", "image"}
                   \/ c.type = "text" /\ trim_is_empty(c.text)
                   \/ c.type = "files" /\ c.files = <<>>
                   \/ c.type = "image" /\ image_hash = LAST_IMAGE_HASH
       IN  IF c.type = "text" /\ pasteboard_has_content /\ preview_panics(c.text, PreviewCut)
           THEN /\ tpc' = [tpc EXCEPT ![t] = "panicked"]
                /\ UNCHANGED <<cap, LAST_IMAGE_HASH>>
           ELSE IF skip
           THEN /\ tpc' = [tpc EXCEPT ![t] = "loop"]
                /\ UNCHANGED <<cap, LAST_IMAGE_HASH>>
           ELSE /\ cap' = [NoCap EXCEPT !.content = c]
                /\ LAST_IMAGE_HASH' = IF c.type = "image" THEN image_hash ELSE LAST_IMAGE_HASH
                /\ tpc' = [tpc EXCEPT ![t] = IF c.type = "image" THEN "decode"
                                             ELSE "delete_lock"]
    /\ UNCHANGED <<items, image_files, nextId, now, last, accepted, conn, monitorFrame>>

\* self.conn.lock() on entry of a Database method called by the monitor
MonitorLock(t) ==
    /\ tpc[t] \in LockPositions
    /\ conn = NoHolder
    /\ conn' = Monitor(t)
    /\ tpc' = [tpc EXCEPT ![t] = Inside(tpc[t])]
    /\ UNCHANGED <<items, image_files, nextId, now, last, accepted, cap, LAST_IMAGE_HASH,
                   monitorFrame>>

\* Database::delete_unpinned_by_content under the lock
MonitorDelete(t) ==
    /\ tpc[t] = "delete_in"
    /\ \E r \in delete_unpinned_by_content(items, Payload(cap.content)) :
         /\ items' = r.items
         /\ cap' = [cap EXCEPT
                      !.replaced = r.existing,
                      !.item = IF \E i \in items : i.id = r.existing
                               THEN LET i == CHOOSE i \in items : i.id = r.existing
                                    IN  WithSource(cap.item, [app |-> i.source_app,
                                                              icon |-> i.source_app_icon])
                               ELSE cap.item]
    /\ conn' = NoHolder
    /\ tpc' = [tpc EXCEPT ![t] = "build"]
    /\ UNCHANGED <<image_files, nextId, now, last, accepted, LAST_IMAGE_HASH, monitorFrame>>

\* image::load_from_memory and the thumbnail
MonitorDecode(t) ==
    /\ tpc[t] = "decode"
    /\ tpc' = [tpc EXCEPT ![t] = "write_file"]
    /\ UNCHANGED <<items, image_files, nextId, now, last, accepted, conn, cap,
                   LAST_IMAGE_HASH, monitorFrame>>

\* FileStorage::save_image, or save_png_bytes when the image did not decode
MonitorWriteFile(t) ==
    /\ tpc[t] = "write_file"
    /\ LET path == get_image_path(nextId)
           bytes == cap.content.png_data
       IN  /\ image_files' = write_file(image_files, path,
                                        IF load_from_memory(bytes) THEN encode_png(bytes)
                                        ELSE bytes)
           /\ cap' = [cap EXCEPT !.item = new_image(NoId, path, 0)]
    /\ nextId' = nextId + 1
    /\ tpc' = [tpc EXCEPT ![t] = "build"]
    /\ UNCHANGED <<items, now, last, accepted, conn, LAST_IMAGE_HASH, monitorFrame>>

\* the provenance lookup and ClipboardItem::new_text / new_files / new_image
MonitorBuild(t) ==
    /\ tpc[t] = "build"
    /\ LET source == IF cap.item.source_app # NoApp
                     THEN [app |-> cap.item.source_app, icon |-> cap.item.source_app_icon]
                     ELSE get_source_app_info
       IN  cap' = [cap EXCEPT !.item =
                     WithSource(IF cap.content.type = "image"
                                THEN new_image(nextId, cap.item.image_path, now)
                                ELSE NewItem(nextId, ContentTypeOf(cap.content),
                                             Payload(cap.content), now),
                                source)]
    /\ nextId' = nextId + 1
    /\ now' = now + 1
    /\ tpc' = [tpc EXCEPT ![t] = "insert_lock"]
    /\ UNCHANGED <<items, image_files, last, accepted, conn, LAST_IMAGE_HASH, monitorFrame>>

\* Database::insert_item under the lock
MonitorInsert(t) ==
    /\ tpc[t] = "insert_in"
    /\ items' = insert_item(items, cap.item)
    /\ accepted' = Fingerprint(cap.content)
    /\ conn' = NoHolder
    /\ tpc' = [tpc EXCEPT ![t] = "limit_lock"]
    /\ UNCHANGED <<image_files, nextId, now, last, cap, LAST_IMAGE_HASH, monitorFrame>>

\* Database::get_history_limit: get_setting under the lock, then the parse
MonitorLimit(t) ==
    /\ tpc[t] = "limit_in"
    /\ cap' = [cap EXCEPT !.limit = get_history_limit(history_limit).val]
    /\ conn' = NoHolder
    /\ tpc' = [tpc EXCEPT ![t] = IF get_history_limit(history_limit).ok
                                 THEN "prune_lock" ELSE "emit"]
    /\ UNCHANGED <<items, image_files, nextId, now, last, accepted, LAST_IMAGE_HASH,
                   monitorFrame>>

\* Database::prune_oldest under the lock
MonitorPrune(t) ==
    /\ tpc[t] = "prune_in"
    /\ items' = prune_oldest(items, cap.limit)
    /\ conn' = NoHolder
    /\ tpc' = [tpc EXCEPT ![t] = "emit"]
    /\ UNCHANGED <<image_files, nextId, now, last, accepted, cap, LAST_IMAGE_HASH,
                   monitorFrame>>

\* app_handle.emit("clipboard-changed", payload); the capture is over
MonitorEmit(t) ==
    /\ tpc[t] = "emit"
    /\ last' = [NoLast EXCEPT !.op = "capture", !.type = cap.content.type,
                   !.outcome = "inserted", !.text = cap.item.content_text,
                   !.newId = cap.item.id, !.replaced = cap.replaced,
                   !.used = IF cap.content.type = "image" THEN 2 ELSE 1,
                   !.file = cap.item.image_path,
                   !.emitted = TRUE, !.evItem = cap.item.id, !.evReplaced = cap.replaced]
    /\ cap' = NoCap
    /\ tpc' = [tpc EXCEPT ![t] = "loop"]
    /\ UNCHANGED <<items, image_files, nextId, now, accepted, conn, LAST_IMAGE_HASH,
                   monitorFrame>>

handlerFrame == <<pinboards, nextId, now, image_files, clipboard, changeCount, tpc,
                  last_change_count, LAST_IMAGE_HASH, lifeVars, accepted, cap,
                  frontmost>>

\* requests of the frontend: get_clipboard_history, delete_clipboard_item,
\* toggle_favorite, update_setting("history_limit", "1")
HandlerOps == {"get_items", "delete_item", "toggle_item_favorite", "set_setting"}

\* the command layer runs a command on one of its threads
HandlerCall(h, op, id) ==
    /\ fpc[h].pc = "idle"
    /\ (op \in {"delete_item", "toggle_item_favorite"}) <=> (id # NoId)
    /\ fpc' = [fpc EXCEPT ![h] = [pc |-> "lock", op |-> op, id |-> id, result |-> <<>>]]
    /\ UNCHANGED <<items, history_limit, last, pureRun, conn, handlerFrame>>

\* a command that enters its Database method without taking the lock
HandlerLockUnguarded(h) ==
    /\ fpc[h].pc = "lock"
    /\ conn' = Handler(h)
    /\ fpc' = [fpc EXCEPT ![h].pc = "in"]
    /\ UNCHANGED <<items, history_limit, last, pureRun, handlerFrame>>

\* self.conn.lock() on entry of the Database method of the command
HandlerLock(h) ==
    /\ fpc[h].pc = "lock"
    /\ conn = NoHolder
    /\ conn' = Handler(h)
    /\ fpc' = [fpc EXCEPT ![h].pc = "in"]
    /\ UNCHANGED <<items, history_limit, last, pureRun, handlerFrame>>

\* the statement of the Database method; the guard is dropped on return
HandlerRun(h) ==
    /\ fpc[h].pc = "in"
    /\ LET op == fpc[h].op
       IN  /\ items' = CASE op = "delete_item" -> delete_item(items, fpc[h].id)
                         [] op = "toggle_item_favorite" ->
                              toggle_item_favorite(items, fpc[h].id)
                         [] OTHER -> items
           /\ history_limit' = IF op = "set_setting" THEN "1" ELSE history_limit
           /\ \E l \in (IF op = "get_items" THEN get_items(items, 50, 0) ELSE {<<>>}) :
                fpc' = [fpc EXCEPT ![h].pc = "returned",
                                   ![h].result = [k \in 1..Len(l) |-> l[k].id]]
    /\ conn' = NoHolder
    /\ last' = CmdLast
    /\ pureRun' = FALSE
    /\ UNCHANGED handlerFrame

\* ------------------------------------------------------------------------
\* Specification of the store lock: the monitor captures a text and an image
\* step by step while command handlers run
\* ------------------------------------------------------------------------
LockContents == {ContentText(TextA), ContentImage(ImagePng)}

\* another application copies
HandlerCopy(c) ==
    /\ changeCount < MaxHandlerCopies
    /\ clipboard' = c
    /\ changeCount' = changeCount + 1
    /\ UNCHANGED <<storeVars, frontmost, tpc, last_change_count, LAST_IMAGE_HASH, lifeVars,
                   last, accepted, pureRun>>

LockNext ==
    \/ \E c \in LockContents : HandlerCopy(c)
    \/ \E t \in Tids : ThreadInit(t)
    \/ \E t \in Tids : ThreadCheck(t)
    \/ \E t \in Tids : ThreadPoll(t)
    \/ \E t \in Tids : MonitorRead(t)
    \/ \E t \in Tids : MonitorLock(t)
    \/ \E t \in Tids : MonitorDelete(t)
    \/ \E t \in Tids : MonitorDecode(t)
    \/ \E t \in Tids : MonitorWriteFile(t)
    \/ \E t \in Tids : MonitorBuild(t)
    \/ \E t \in Tids : MonitorInsert(t)
    \/ \E t \in Tids : MonitorLimit(t)
    \/ \E t \in Tids : MonitorPrune(t)
    \/ \E t \in Tids : MonitorEmit(t)
    \/ \E h \in Handlers, op \in HandlerOps, id \in Ids(items) \cup {NoId} :
         HandlerCall(h, op, id)
    \/ \E h \in Handlers : HandlerLock(h)
    \/ \E h \in Handlers : HandlerRun(h)

LockSpec == Init /\ [][LockNext]_vars

\* ------------------------------------------------------------------------
\* Specification of the classification: the monitor captures texts that look
\* like URLs or not, and lists of file paths
\* ------------------------------------------------------------------------
\* texts: whitespace or none before and after, a known prefix (one in upper
\* case) or none, a body with or without a dot and a newline
ClassifyTexts ==
    LET wraps == {<<<<>>, <<>>>>, <<<<" ">>, <<>>>>, <<<<>>, <<"\n">>>>}
        schemes == UrlPrefixes \cup {<<"H", "T", "T", "P", ":", "/", "/">>, <<>>}
        bodies == {<<"a">>, <<"a", ".", "b">>, <<"a", "\n", "b", ".", "c">>}
    IN  {wrap[1] \o scheme \o body \o wrap[2] :
            wrap \in wraps, scheme \in schemes, body \in bodies}

\* lists of one or two paths: audio, audio in upper case, document,
\* unrecognized, no extension
ClassifyFileLists ==
    LET paths == {<<"/", "a", ".", "m", "p", "3">>, <<"/", "A", ".", "M", "P", "3">>,
                  <<"/", "c", ".", "p", "d", "f">>, <<"/", "e", ".", "x", "y", "z">>,
                  <<"/", "m", "p", "3">>}
    IN  {<<a>> : a \in paths} \cup {<<a, b>> : a \in paths, b \in paths}

ClassifyContents ==
    {ContentText(s) : s \in ClassifyTexts} \cup {ContentFiles(fs) : fs \in ClassifyFileLists}

\* another application copies a text or files
ClassifiedCopy(c) ==
    /\ changeCount < MaxClassified
    /\ clipboard' = c
    /\ changeCount' = changeCount + 1
    /\ UNCHANGED <<storeVars, frontmost, tpc, last_change_count, LAST_IMAGE_HASH, lifeVars,
                   last, accepted, pureRun>>

ClassifyNext ==
    \/ \E c \in ClassifyContents : ClassifiedCopy(c)
    \/ \E t \in Tids : ThreadInit(t)
    \/ \E t \in Tids : ThreadCheck(t)
    \/ \E t \in Tids : ThreadPoll(t)
    \/ \E t \in Tids : ThreadDispatch(t)

ClassifySpec == Init /\ [][ClassifyNext]_vars

\* ------------------------------------------------------------------------
\* Specification of the ignorable deliveries: the monitor reads unsupported
\* formats, blank texts and empty file lists between a text and an image
\* ------------------------------------------------------------------------
IgnoreContents ==
    {ContentEmpty, ContentText(TextBlank), ContentText(<<"\n", "\t">>), ContentFiles(<<>>),
     ContentText(TextA), ContentImage(ImagePng)}

IgnoreNext ==
    \/ \E c \in IgnoreContents : Deliver(c)
    \/ \E t \in Tids : ThreadInit(t)
    \/ \E t \in Tids : ThreadCheck(t)
    \/ \E t \in Tids : ThreadPoll(t)
    \/ \E t \in Tids : ThreadDispatch(t)

IgnoreSpec == Init /\ [][IgnoreNext]_vars

\* ------------------------------------------------------------------------
\* Specification of the retention: the monitor captures texts while the user
\* pins, unpins, favorites, deletes items and pinboards and stores any
\* string as the limit
\* ------------------------------------------------------------------------
HistoryNext ==
    \/ \E c \in BoardContents : Copy(c)
    \/ \E t \in Tids : ThreadInit(t)
    \/ \E t \in Tids : ThreadCheck(t)
    \/ \E t \in Tids : ThreadPoll(t)
    \/ \E t \in Tids : ThreadDispatch(t)
    \/ \E id \in Ids(items) : ToggleFavorite(id)
    \/ \E id \in Ids(items), pb \in BoardIds : AssignToPinboard(id, pb)
    \/ \E id \in Ids(items) : RemoveFromPinboard(id)
    \/ \E id \in Ids(items) : DeleteItem(id)
    \/ \E pb \in BoardIds : CreatePinboard(pb)
    \/ \E pb \in BoardIds : DeletePinboard(pb)
    \/ \E v \in LimitStrings : UpdateSetting(v)

HistorySpec == Init /\ [][HistoryNext]_vars

\* ------------------------------------------------------------------------
\* Specification of the item commands: the monitor captures texts while the
\* frontend names items that exist, that were deleted or that never existed
\* ------------------------------------------------------------------------
ItemOps == {"get_item", "delete_item", "toggle_item_favorite", "update_item_pinboard"}

\* get_clipboard_item, delete_clipboard_item, toggle_favorite and
\* move_to_pinboard with any id: the Database method and its result
ItemCommand(op, id, pb) ==
    /\ op = "update_item_pinboard" <=> pb # "none"
    /\ pb \in pinboards \cup {NoPin, "none"}
    /\ items' = CASE op = "delete_item" -> delete_item(items, id)
                  [] op = "toggle_item_favorite" -> toggle_item_favorite(items, id)
                  [] op = "update_item_pinboard" -> update_item_pinboard(items, id, pb)
                  [] OTHER -> items
    /\ last' = [CmdLast EXCEPT
                  !.op = op, !.arg = id,
                  !.outcome = IF op = "get_item"
                              THEN IF get_item(items, id) = {} THEN "None" ELSE "Some"
                              ELSE IF rows_affected(items, id) > 0
                                   THEN "Ok(true)" ELSE "Ok(false)"]
    /\ pureRun' = FALSE
    /\ UNCHANGED <<pinboards, history_limit, cmdFrame>>

ItemNext ==
    \/ \E c \in BoardContents : Copy(c)
    \/ \E t \in Tids : ThreadInit(t)
    \/ \E t \in Tids : ThreadCheck(t)
    \/ \E t \in Tids : ThreadPoll(t)
    \/ \E t \in Tids : ThreadDispatch(t)
    \/ \E op \in ItemOps, id \in 1..nextId, pb \in PinboardIds \cup {NoPin, "none"} :
         ItemCommand(op, id, pb)

ItemSpec == Init /\ [][ItemNext]_vars

\* ------------------------------------------------------------------------
\* Specification of the provenance: the user switches between applications
\* and copies texts and file lists while the monitor captures
\* ------------------------------------------------------------------------
\* what the platform lookup can return: nothing, a name with an icon, a name
\* whose icon could not be rendered, an icon of an application without a name
FrontmostApps ==
    {NoSource,
     [app |-> "Editor", icon |-> "EditorIcon"],
     [app |-> "Clipster", icon |-> NoIcon],
     [app |-> NoApp, icon |-> "PlainIcon"]}

ProvenanceContents == {ContentText(TextA), ContentText(TextB), ContentFiles(<<FileF>>)}

\* the user brings another application to the foreground
SwitchApp(a) ==
    /\ frontmost # a
    /\ frontmost' = a
    /\ UNCHANGED <<storeVars, clipboard, changeCount, tpc, last_change_count,
                   LAST_IMAGE_HASH, lifeVars, last, accepted, pureRun>>

ProvenanceNext ==
    \/ \E c \in ProvenanceContents : Copy(c)
    \/ \E a \in FrontmostApps : SwitchApp(a)
    \/ \E t \in Tids : ThreadInit(t)
    \/ \E t \in Tids : ThreadCheck(t)
    \/ \E t \in Tids : ThreadPoll(t)
    \/ \E t \in Tids : ThreadDispatch(t)

ProvenanceSpec == Init /\ [][ProvenanceNext]_vars

\* ------------------------------------------------------------------------
\* Specification of the re-capture: another application copies the same text
\* again and the monitor captures it step by step while command handlers
\* list the history and toggle favorites
\* ------------------------------------------------------------------------
RecaptureContents == {ContentText(TextA)}
RecaptureOps == {"get_items", "toggle_item_favorite"}

RecaptureNext ==
    \/ \E c \in RecaptureContents : Copy(c)
    \/ \E t \in Tids : ThreadInit(t)
    \/ \E t \in Tids : ThreadCheck(t)
    \/ \E t \in Tids : ThreadPoll(t)
    \/ \E t \in Tids : MonitorRead(t)
    \/ \E t \in Tids : MonitorLock(t)
    \/ \E t \in Tids : MonitorDelete(t)
    \/ \E t \in Tids : MonitorBuild(t)
    \/ \E t \in Tids : MonitorInsert(t)
    \/ \E t \in Tids : MonitorLimit(t)
    \/ \E t \in Tids : MonitorPrune(t)
    \/ \E t \in Tids : MonitorEmit(t)
    \/ \E h \in Handlers, op \in RecaptureOps, id \in Ids(items) \cup {NoId} :
         HandlerCall(h, op, id)
    \/ \E h \in Handlers : HandlerLock(h)
    \/ \E h \in Handlers : HandlerRun(h)

RecaptureSpec == Init /\ [][RecaptureNext]_vars

\* ------------------------------------------------------------------------
\* Monitor lifecycle (start_monitoring / stop_monitoring)
\* ------------------------------------------------------------------------
lifeFrame == <<storeVars, frontmost, clipboard, changeCount, last_change_count, LAST_IMAGE_HASH,
               last, accepted, pureRun>>

\* start_monitoring is called: MONITOR_HANDLE.get_or_init, then wait for the lock
StartCall(c) ==
    /\ cpc[c] = "idle"
    /\ calls < MaxCalls
    /\ calls' = calls + 1
    /\ cpc' = [cpc EXCEPT ![c] = "start_lock"]
    /\ ret' = [ret EXCEPT ![c] = "pending"]
    /\ UNCHANGED <<lifeFrame, tpc, SHOULD_STOP, MONITOR_HANDLE, monitor_mutex,
                   joining, nextTid>>

\* monitor_mutex.lock() in start_monitoring
StartLock(c) ==
    /\ cpc[c] = "start_lock"
    /\ monitor_mutex = NoCaller
    /\ monitor_mutex' = c
    /\ cpc' = [cpc EXCEPT ![c] = "start_check"]
    /\ UNCHANGED <<lifeFrame, tpc, SHOULD_STOP, MONITOR_HANDLE, joining, nextTid, calls, ret>>

\* a start that does not look at the stored handle
StartCheckUnguarded(c) ==
    /\ cpc[c] = "start_check"
    /\ SHOULD_STOP' = FALSE
    /\ cpc' = [cpc EXCEPT ![c] = "start_spawn"]
    /\ UNCHANGED <<monitor_mutex, ret>>
    /\ UNCHANGED <<lifeFrame, tpc, MONITOR_HANDLE, joining, nextTid, calls>>

\* if guard.is_some() { return Ok(()) }; SHOULD_STOP.store(false)
StartCheck(c) ==
    /\ cpc[c] = "start_check"
    /\ IF MONITOR_HANDLE # NoTid
       THEN /\ monitor_mutex' = NoCaller
            /\ cpc' = [cpc EXCEPT ![c] = "idle"]
            /\ ret' = [ret EXCEPT ![c] = "already_running"]
            /\ UNCHANGED SHOULD_STOP
       ELSE /\ SHOULD_STOP' = FALSE
            /\ cpc' = [cpc EXCEPT ![c] = "start_spawn"]
            /\ UNCHANGED <<monitor_mutex, ret>>
    /\ UNCHANGED <<lifeFrame, tpc, MONITOR_HANDLE, joining, nextTid, calls>>

\* platform::start_monitoring_impl (thread::spawn); *guard = Some(handle); Ok(())
StartSpawn(c) ==
    /\ cpc[c] = "start_spawn"
    /\ nextTid \in Tids
    /\ tpc' = [tpc EXCEPT ![nextTid] = "init"]
    /\ MONITOR_HANDLE' = nextTid
    /\ nextTid' = nextTid + 1
    /\ monitor_mutex' = NoCaller
    /\ cpc' = [cpc EXCEPT ![c] = "idle"]
    /\ ret' = [ret EXCEPT ![c] = "spawned"]
    /\ UNCHANGED <<lifeFrame, SHOULD_STOP, joining, calls>>

\* stop_monitoring is called: SHOULD_STOP.store(true), then wait for the lock
StopCall(c) ==
    /\ cpc[c] = "idle"
    /\ calls < MaxCalls
    /\ calls' = calls + 1
    /\ SHOULD_STOP' = TRUE
    /\ cpc' = [cpc EXCEPT ![c] = "stop_lock"]
    /\ ret' = [ret EXCEPT ![c] = "pending"]
    /\ UNCHANGED <<lifeFrame, tpc, MONITOR_HANDLE, monitor_mutex, joining, nextTid>>

\* monitor_mutex.lock(); guard.take()
StopLock(c) ==
    /\ cpc[c] = "stop_lock"
    /\ monitor_mutex = NoCaller
    /\ IF MONITOR_HANDLE = NoTid
       THEN /\ cpc' = [cpc EXCEPT ![c] = "idle"]
            /\ ret' = [ret EXCEPT ![c] = "not_running"]
            /\ UNCHANGED <<monitor_mutex, joining, MONITOR_HANDLE>>
       ELSE /\ monitor_mutex' = c
            /\ joining' = [joining EXCEPT ![c] = MONITOR_HANDLE]
            /\ MONITOR_HANDLE' = NoTid
            /\ cpc' = [cpc EXCEPT ![c] = "stop_join"]
            /\ UNCHANGED ret
    /\ UNCHANGED <<lifeFrame, tpc, SHOULD_STOP, nextTid, calls>>

\* a join that returns without waiting for the thread
JoinReturnsAtOnce(t) ==
    tpc[t] \in {"init", "loop", "sleep", "settle", "blocked", "exited", "panicked", "failed"}

\* JoinHandle::join returns once the thread has ended
JoinReturns(t) == tpc[t] \in {"exited", "panicked", "failed"}

\* handle.join(); the guard is dropped and stop_monitoring returns
StopJoin(c) ==
    /\ cpc[c] = "stop_join"
    /\ JoinReturns(joining[c])
    /\ monitor_mutex' = NoCaller
    /\ joining' = [joining EXCEPT ![c] = NoTid]
    /\ cpc' = [cpc EXCEPT ![c] = "idle"]
    /\ ret' = [ret EXCEPT ![c] = "joined"]
    /\ UNCHANGED <<lifeFrame, tpc, SHOULD_STOP, MONITOR_HANDLE, nextTid, calls>>

\* guard.is_some() && !SHOULD_STOP.load()
is_monitoring == MONITOR_HANDLE # NoTid /\ ~SHOULD_STOP

\* is_monitoring is called: the lock is taken, the answer computed, the
\* guard dropped
IsMonitoring(c) ==
    /\ cpc[c] = "idle"
    /\ calls < MaxCalls
    /\ monitor_mutex = NoCaller
    /\ calls' = calls + 1
    /\ ret' = [ret EXCEPT ![c] = IF is_monitoring THEN "monitoring" ELSE "not_monitoring"]
    /\ UNCHANGED <<lifeFrame, tpc, SHOULD_STOP, MONITOR_HANDLE, monitor_mutex, cpc,
                   joining, nextTid>>

\* ------------------------------------------------------------------------
\* Specification of the lifecycle: callers start and stop the monitor while
\* text is copied
\* ------------------------------------------------------------------------
LifeContents == {ContentText(TextA), ContentText(TextB)}

LifeInit ==
    /\ items = {}
    /\ pinboards = {}
    /\ nextId = 1
    /\ now = 1
    /\ pureRun = TRUE
    /\ history_limit = "500"
    /\ clipboard = ContentNone
    /\ changeCount = 0
    /\ tpc = [t \in Tids |-> "unborn"]
    /\ last_change_count = [t \in Tids |-> 0]
    /\ LAST_IMAGE_HASH = InitialImageHash
    /\ SHOULD_STOP = FALSE
    /\ MONITOR_HANDLE = NoTid
    /\ monitor_mutex = NoCaller
    /\ cpc = [c \in CallerIds |-> "idle"]
    /\ joining = [c \in CallerIds |-> NoTid]
    /\ nextTid = 1
    /\ calls = 0
    /\ ret = [c \in CallerIds |-> "none"]
    /\ last = NoLast
    /\ accepted = NoFingerprint
    /\ image_files = {}
    /\ conn = NoHolder
    /\ cap = NoCap
    /\ fpc = [h \in Handlers |-> IdleHandler]
    /\ frontmost = NoSource

ThreadStep ==
    \/ \E t \in Tids : ThreadInit(t)
    \/ \E t \in Tids : ThreadCheck(t)
    \/ \E t \in Tids : ThreadPoll(t)
    \/ \E t \in Tids : ThreadDispatch(t)

CallerStep ==
    \/ \E c \in CallerIds : StartLock(c)
    \/ \E c \in CallerIds : StartCheck(c)
    \/ \E c \in CallerIds : StartSpawn(c)
    \/ \E c \in CallerIds : StopLock(c)
    \/ \E c \in CallerIds : StopJoin(c)

LifeNext ==
    \/ \E c \in LifeContents : ClipboardWrite(c)
    \/ \E c \in CallerIds : StartCall(c)
    \/ \E c \in CallerIds : StopCall(c)
    \/ ThreadStep
    \/ CallerStep

LifeSpec == LifeInit /\ [][LifeNext]_vars

\* ------------------------------------------------------------------------
\* The monitor thread, push-notification variant
\* (platform::start_monitoring_impl with clipboard_master::Master)
\* ------------------------------------------------------------------------
\* a callback that never looks at the stop flag
CallbackNeverStops == FALSE

\* if SHOULD_STOP.load() { return CallbackResult::Stop }
CallbackStops == SHOULD_STOP

\* what a callback that does not dispatch leaves behind
CallbackLast(t, kind, result) ==
    [NoLast EXCEPT !.op = "callback", !.type = kind, !.outcome = result, !.arg = t,
                   !.errors = last.errors]

\* ClipboardMonitorHandler::new, Master::new and the set-up of Master::run:
\* the thread blocks until a callback, or ends at once when
\* FileStorage::new().expect panics or run returns an error
PushInit(t) ==
    /\ tpc[t] = "init"
    /\ \E outcome \in {"blocked", "panicked", "failed"} :
         tpc' = [tpc EXCEPT ![t] = outcome]
    /\ last_change_count' = [last_change_count EXCEPT ![t] = changeCount]
    /\ UNCHANGED <<storeVars, frontmost, clipboard, changeCount, LAST_IMAGE_HASH, lifeVars,
                   last, accepted, pureRun>>

\* on_clipboard_change, called once for each write to the clipboard made
\* while the thread listens
PushChange(t) ==
    /\ tpc[t] = "blocked"
    /\ last_change_count[t] < changeCount
    /\ last_change_count' = [last_change_count EXCEPT ![t] = @ + 1]
    /\ IF CallbackStops
       THEN /\ tpc' = [tpc EXCEPT ![t] = "exited"]
            /\ last' = CallbackLast(t, "change", "Stop")
            /\ UNCHANGED <<items, image_files, LAST_IMAGE_HASH, nextId, now, accepted,
                           pureRun>>
       ELSE \E fault \in FaultsOf(read_clipboard.type) :
              \E r \in process_clipboard_change(read_clipboard, fault) :
                /\ tpc' = [tpc EXCEPT ![t] = IF r.last.outcome = "panic"
                                             THEN "panicked" ELSE "blocked"]
                /\ items' = r.items
                /\ image_files' = r.disk
                /\ last' = [r.last EXCEPT !.again = Redelivery(last, r.last),
                                          !.png = read_clipboard.png_data,
                                          !.arg = t, !.errors = last.errors]
                /\ LAST_IMAGE_HASH' = r.hash
                /\ nextId' = nextId + r.last.used
                /\ now' = IF r.last.newId # NoId THEN now + 1 ELSE now
                /\ accepted' = IF r.last.outcome = "inserted"
                               THEN Fingerprint(read_clipboard) ELSE accepted
                /\ pureRun' = /\ pureRun
                              /\ r.last.outcome = "inserted" =>
                                   r.last.replaced = NoId /\ r.last.fault = "none"
                              /\ r.last.outcome \notin {"lost", "panic"}
    /\ UNCHANGED <<pinboards, history_limit, clipboard, changeCount, lifeVars, stepVars,
                   frontmost>>

\* on_clipboard_error: the adapter reports an error of the message loop
PushError(t) ==
    /\ tpc[t] = "blocked"
    /\ last.errors < MaxErrors
    /\ tpc' = [tpc EXCEPT ![t] = IF CallbackStops THEN "exited" ELSE "blocked"]
    /\ last' = [CallbackLast(t, "error", IF CallbackStops THEN "Stop" ELSE "Next")
                  EXCEPT !.errors = last.errors + 1]
    /\ UNCHANGED <<storeVars, frontmost, clipboard, changeCount, last_change_count,
                   LAST_IMAGE_HASH, lifeVars, accepted, pureRun>>

\* ------------------------------------------------------------------------
\* Specification of the push-notification variant: callers start and stop
\* the monitor while texts are copied and the adapter reports an error
\* ------------------------------------------------------------------------
PushNext ==
    \/ \E c \in LifeContents : ClipboardWrite(c)
    \/ \E c \in CallerIds : StartCall(c)
    \/ \E c \in CallerIds : StopCall(c)
    \/ \E t \in Tids : PushInit(t)
    \/ \E t \in Tids : PushChange(t)
    \/ \E t \in Tids : PushError(t)
    \/ CallerStep

PushSpec == LifeInit /\ [][PushNext]_vars

\* ------------------------------------------------------------------------
\* Specification of the restart: callers start, stop and query the monitor
\* while texts are copied, one of which makes the preview of process_text
\* panic
\* ------------------------------------------------------------------------
RestartContents == {ContentText(TextA), ContentText(TextMulti)}

RestartNext ==
    \/ \E c \in RestartContents : ClipboardWrite(c)
    \/ \E c \in CallerIds : StartCall(c)
    \/ \E c \in CallerIds : StopCall(c)
    \/ \E c \in CallerIds : IsMonitoring(c)
    \/ ThreadStep
    \/ CallerStep

RestartSpec == LifeInit /\ [][RestartNext]_vars

\* the scheduler runs every thread that can take a step: monitor threads and
\* callers inside start_monitoring / stop_monitoring
FairLifeSpec ==
    /\ LifeInit
    /\ [][LifeNext]_vars
    /\ \A t \in Tids :
         /\ WF_vars(ThreadInit(t))
         /\ WF_vars(ThreadCheck(t))
         /\ WF_vars(ThreadPoll(t))
         /\ WF_vars(ThreadDispatch(t))
    /\ \A c \in CallerIds :
         /\ WF_vars(StartLock(c))
         /\ WF_vars(StartCheck(c))
         /\ WF_vars(StartSpawn(c))
         /\ WF_vars(StopLock(c))
         /\ WF_vars(StopJoin(c))

\* ========================================================================
\* Properties
\* ========================================================================
LiveThreads == {t \in Tids : Live(t)}

\* a step in which caller c leaves the guard check of start_monitoring
LeavesStartCheck(c) == cpc[c] = "start_check" /\ cpc'[c] # "start_check"

\* C8: at most one monitor thread exists at any time, and start_monitoring
\* finding the handle set (Running) spawns no thread, leaves the handle and the
\* stop flag alone and returns Ok.
C8_SingleThread ==
    /\ [](Cardinality(LiveThreads) <= 1)
    /\ [][\A c \in CallerIds :
            (LeavesStartCheck(c) /\ MONITOR_HANDLE # NoTid) =>
               /\ tpc' = tpc
               /\ MONITOR_HANDLE' = MONITOR_HANDLE
               /\ SHOULD_STOP' = SHOULD_STOP
               /\ cpc'[c] = "idle"
               /\ ret'[c] = "already_running"]_vars

\* C8 witness: a start_monitoring call returned without spawning while the
\* thread of an earlier call is alive.
C8_Witness ==
    \E c \in CallerIds :
        /\ ret[c] = "already_running"
        /\ MONITOR_HANDLE # NoTid
        /\ Live(MONITOR_HANDLE)
        /\ nextTid = 2

\* C9: a live monitor thread is always the one MONITOR_HANDLE holds or the one
\* a stop_monitoring call that has not returned yet is joining; so from the
\* return of a stop that found a running monitor until a later start spawns,
\* no monitor thread is alive to insert, delete, prune or notify.
C9_NoThreadAfterStop ==
    /\ \A t \in Tids :
         Live(t) => \/ MONITOR_HANDLE = t
                    \/ \E c \in CallerIds : cpc[c] = "stop_join" /\ joining[c] = t
    /\ \A c \in CallerIds :
         (ret[c] = "joined" /\ MONITOR_HANDLE = NoTid /\ monitor_mutex = NoCaller)
            => LiveThreads = {}

\* C9 witness: a stop_monitoring call has joined a thread that had captured
\* an item, and no later start has spawned yet.
C9_Witness ==
    \E c \in CallerIds :
        /\ ret[c] = "joined"
        /\ MONITOR_HANDLE = NoTid
        /\ monitor_mutex = NoCaller
        /\ items # {}
        /\ \E t \in Tids : tpc[t] = "exited"

\* C10: in the polling variant, under fair scheduling, every call to
\* stop_monitoring eventually returns.
C10_StopReturns ==
    \A c \in CallerIds : (cpc[c] \in {"stop_lock", "stop_join"}) ~> (cpc[c] = "idle")

\* ------------------------------------------------------------------------
\* Capture properties
\* ------------------------------------------------------------------------
\* a step in which a monitor thread dispatches the clipboard content
DispatchStep ==
    /\ pasteboard_has_content
    /\ \E t \in Tids : tpc[t] = "settle" /\ tpc'[t] \in {"loop", "panicked"}

\* a dispatch of a text or file list that is not skipped as blank or empty
MoveToTopStep ==
    /\ DispatchStep
    /\ clipboard.type \in {"text", "files"}
    /\ last'.outcome # "skipped"

\* every store call of the capture succeeded and the item was inserted
CleanCapture(l) == l.op = "capture" /\ l.outcome = "inserted" /\ l.fault = "none"

\* rows the OFFSET of prune_oldest(k) keeps
EffectiveKeep(k) == IF AsI64(k) < 0 THEN 0 ELSE AsI64(k)

\* the prune of capture l left the item it had just inserted in place
KeepsNew(l) == l.pruneK = -1 \/ EffectiveKeep(l.pruneK) >= 1

Newest(its) == {i \in its : \A j \in its : j.created_at <= i.created_at}

\* C1: a text or file capture never deletes an unpinned favorite item whose
\* payload equals the captured payload.
C1_FavoriteSurvivesMoveToTop ==
    [][MoveToTopStep =>
         \A i \in items :
            (i.fav /\ i.pin = NoPin /\ i.content_text = Payload(clipboard))
               => i.id \in Ids(items')]_vars

\* C2: a monitor capture never deletes or changes a pinned item, neither by
\* move-to-top of an identical payload nor by the prune after the insert,
\* whatever is stored under history_limit.
C2_PinIsolation ==
    [][DispatchStep => \A i \in items : i.pin # NoPin => i \in items']_vars

\* C2 witness: a capture was inserted and pruned away again while a pinned
\* item with the same payload stayed.
C2_Witness ==
    /\ last.op = "capture" /\ last.outcome = "inserted"
    /\ last.pruneK >= 0
    /\ Cardinality(Eligible(items)) < last.pruneN
    /\ \E i \in items : i.pin # NoPin /\ i.content_text = last.text

\* C3 as claimed: re-capturing a payload an unpinned item holds leaves exactly
\* one unpinned item with it, the newest, and the unpinned count unchanged.
C3_MoveToTopKeepsCount ==
    [][(/\ MoveToTopStep
        /\ CleanCapture(last')
        /\ Unpinned(WithText(items, Payload(clipboard))) # {})
         => /\ Cardinality(Unpinned(WithText(items', Payload(clipboard)))) = 1
            /\ Unpinned(WithText(items', Payload(clipboard))) = Newest(Unpinned(items'))
            /\ Cardinality(Unpinned(items')) = Cardinality(Unpinned(items))]_vars

\* C3 amended: after such a capture at most one unpinned item holds the
\* payload; it is the inserted item and the newest unpinned item, and it is
\* there unless the prune after the insert removed it; the unpinned count is
\* at most the count before.
C3_MoveToTop ==
    [][(/\ MoveToTopStep
        /\ CleanCapture(last')
        /\ Unpinned(WithText(items, Payload(clipboard))) # {})
         => LET same == Unpinned(WithText(items', Payload(clipboard)))
            IN  /\ Cardinality(same) <= 1
                /\ \A i \in same : i.id = last'.newId /\ i \in Newest(Unpinned(items'))
                /\ KeepsNew(last') => Cardinality(same) = 1
                /\ last'.replaced # NoId
                /\ last'.replaced \notin Ids(items')
                /\ Cardinality(Unpinned(items')) <= Cardinality(Unpinned(items))]_vars

\* C3 witness: a capture replaced an unpinned item with the same payload and
\* its item is the one unpinned item with that payload, at the top.
C3_Witness ==
    /\ CleanCapture(last)
    /\ last.replaced # NoId
    /\ Cardinality(Unpinned(items)) >= 2
    /\ \E i \in Newest(Unpinned(items)) :
         /\ i.id = last.newId
         /\ Unpinned(WithText(items, last.text)) = {i}

\* C4: a capture whose fingerprint equals that of the immediately preceding
\* accepted capture changes no row and emits no notification.
C4_HashGateAllKinds ==
    [][(/\ DispatchStep
        /\ accepted # NoFingerprint
        /\ Fingerprint(clipboard) = accepted)
         => /\ items' = items
            /\ last'.outcome = "skipped"
            /\ ~last'.emitted]_vars

\* C5 as claimed: the same non-blank text delivered twice in immediate
\* succession leaves exactly one stored item with that payload.
C5_TwiceYieldsOne ==
    (last.again /\ last.type = "text") =>
        Cardinality(WithText(items, last.text)) = 1

\* C5 amended: it leaves exactly one unpinned item with that payload, the one
\* the second delivery inserted, or none when the prune after the second
\* insert removed it; pinned items with the payload are not counted.
C5_TwiceYieldsOneUnpinned ==
    (last.again /\ last.type = "text") =>
        /\ Cardinality(Unpinned(WithText(items, last.text))) = IF KeepsNew(last) THEN 1 ELSE 0
        /\ Ids(Unpinned(WithText(items, last.text))) \subseteq {last.newId}

\* C5 witness: the second delivery replaced the item of the first one.
C5_Witness ==
    /\ last.again /\ last.type = "text"
    /\ last.replaced # NoId
    /\ Ids(Unpinned(WithText(items, last.text))) = {last.newId}

\* C6: after N captures of distinct payloads into an empty history under
\* history_limit = k < N, with no other operation, exactly k items remain,
\* all unpinned, and they are the k inserted last.
C6_Retention ==
    LET limit == get_history_limit(history_limit)
        N == now - 1
    IN  (pureRun /\ limit.ok /\ limit.val < N) =>
            /\ Cardinality(items) = limit.val
            /\ \A i \in items : i.pin = NoPin /\ ~i.fav /\ i.created_at > N - limit.val

\* C6 witness: two items were captured under history_limit = 1 and the second
\* is the one kept.
C6_Witness ==
    /\ pureRun
    /\ history_limit = "1"
    /\ nextId = 3
    /\ Ids(items) = {2}

\* C7: after a capture whose prune_oldest(k) ran on n unpinned non-favorite
\* rows, exactly min(k, n) of them remain (the newest), favorites aside.
C7_PruneKeepsNewest ==
    (last.op = "capture" /\ last.pruneK >= 0) =>
        Cardinality(Eligible(items)) = Min(last.pruneK, last.pruneN)

\* ------------------------------------------------------------------------
\* Capture pipeline: failures, images, notifications
\* ------------------------------------------------------------------------
\* rows a step adds and rows it removes
NewRows == items' \ items
RemovedRows == items \ items'

\* an image capture that the hash-gate lets pass
ImageStep ==
    /\ DispatchStep
    /\ clipboard.type = "image"
    /\ hash_bytes(Prefix(clipboard.png_data)) # LAST_IMAGE_HASH

\* the last operation was an image capture that passed the hash-gate
ImageCapture(l) == l.op = "capture" /\ l.type = "image" /\ l.outcome # "skipped"

\* the row of capture l is in the store, at the file the capture wrote
RowOf(l) == {i \in items : i.id = l.newId /\ i.image_path = l.file}

\* C11: a monitor thread ends only when the stop flag is set; no capture
\* ends it, whatever its outcome and whatever the text.
C11_LoopSurvivesCapture ==
    [][\A t \in Tids : (Live(t) /\ ~Live(t)') => SHOULD_STOP]_vars

\* C12: a text or file capture whose insert fails leaves the history exactly
\* as it was before the capture.
C12_FailedInsertChangesNothing ==
    [][(/\ DispatchStep
        /\ clipboard.type \in {"text", "files"}
        /\ last'.outcome = "lost")
         => items' = items]_vars

C14_FileImpliesRow ==
    (ImageCapture(last) /\ last.file # NoPath) => RowOf(last) # {}

\* C14 amended: an image capture that passed the hash-gate ends without a row
\* only when the raw write failed, the insert failed, or the prune after the
\* insert removed the row; in every other case the file was written and the
\* row exists.
C14_RowUnlessLost ==
    ImageCapture(last) =>
        /\ last.fault \notin {"disk", "insert"} => (last.outcome = "inserted" /\ last.file # NoPath)
        /\ last.fault = "disk" => (last.file = NoPath /\ last.outcome = "lost")
        /\ \/ RowOf(last) # {}
           \/ last.fault \in {"disk", "insert"}
           \/ ~KeepsNew(last)

\* C14 witness: the encoded save failed, the raw bytes were written instead
\* and the row exists.
C14_Witness ==
    /\ ImageCapture(last)
    /\ last.fault = "save_image"
    /\ RowOf(last) # {}
    /\ [path |-> last.file, content |-> ImagePng] \in image_files

\* C15: an image is skipped by the hash-gate only when the capture accepted
\* just before it was an image with the same fingerprint.
C15_GateComparesPrevious ==
    [][(/\ DispatchStep
        /\ clipboard.type = "image"
        /\ last'.outcome = "skipped")
         => accepted = Fingerprint(clipboard)]_vars

\* C16: an image capture deletes no row through move-to-top (every row it
\* removes is one the prune removes) and names no replaced item, in its
\* outcome and in its notification.
C16_ImageFreshInsert ==
    [][(DispatchStep /\ clipboard.type = "image")
         => /\ last'.replaced = NoId
            /\ last'.evReplaced = NoId
            /\ \A r \in RemovedRows :
                 /\ r \in Eligible(items)
                 /\ last'.pruneK >= 0
                 /\ Cardinality({j \in Eligible(items) : j.created_at > r.created_at}) + 1
                      >= EffectiveKeep(last'.pruneK)]_vars

\* C16 witness: a second image was inserted next to the first one and its
\* notification was emitted.
C16_Witness ==
    /\ ImageCapture(last)
    /\ last.emitted
    /\ RowOf(last) # {}
    /\ Cardinality({i \in items : i.content_type = "image"}) >= 2

\* C17: the file of every Image row is at the path derived from the row's
\* own id.
C17_PathFromItemId ==
    \A i \in items : i.content_type = "image" => i.image_path = get_image_path(i.id)

\* C18: a notification is emitted only by a capture whose insert succeeded,
\* and it carries the inserted item; a capture whose insert failed emits
\* none.
C18_EmitAfterInsert ==
    last.op = "capture" =>
        /\ last.emitted => (last.outcome = "inserted" /\ last.evItem = last.newId)
        /\ last.outcome # "inserted" => (~last.emitted /\ last.evItem = NoId)

\* C18 witness: a capture was inserted, is in the store and was notified.
C18_Witness ==
    /\ last.op = "capture"
    /\ last.emitted
    /\ last.evItem \in Ids(items)
    /\ last.type = "text"

\* C19 as claimed: every fault-free inserted capture ran prune_oldest with
\* the value of history_limit, whatever is stored there, and then emitted
\* one notification naming the item replaced by move-to-top, if any.
C19_PruneThenNotifyAlways ==
    [][(DispatchStep /\ CleanCapture(last'))
         => /\ get_history_limit(history_limit).ok
            /\ last'.pruneK = get_history_limit(history_limit).val
            /\ last'.emitted /\ last'.evItem = last'.newId
            /\ last'.evReplaced = last'.replaced
            /\ last'.replaced # NoId <=>
                 (/\ last'.type \in {"text", "files"}
                  /\ Unpinned(WithText(items, last'.text)) # {})]_vars

\* C19 amended: the prune runs with the parsed value when the stored
\* history_limit parses as usize and is skipped when it does not (no row is
\* then removed beyond the move-to-top); the notification follows either way.
C19_PruneThenNotify ==
    [][(DispatchStep /\ CleanCapture(last'))
         => LET limit == get_history_limit(history_limit)
                moved == IF last'.type \in {"text", "files"}
                         THEN Unpinned(WithText(items, last'.text)) ELSE {}
            IN  /\ limit.ok => last'.pruneK = limit.val
                /\ ~limit.ok => (last'.pruneK = -1 /\ RemovedRows = moved
                                   /\ Cardinality(NewRows) = 1)
                /\ last'.emitted /\ last'.evItem = last'.newId
                /\ last'.evReplaced = last'.replaced
                /\ last'.replaced # NoId <=> moved # {}
                /\ last'.replaced # NoId => last'.replaced \in Ids(moved)]_vars

\* C19 witness: a capture replaced an item under history_limit = 1, pruned
\* and notified with the replaced id.
C19_Witness ==
    /\ CleanCapture(last)
    /\ history_limit = "1"
    /\ last.pruneK = 1
    /\ last.emitted
    /\ last.replaced # NoId
    /\ last.evReplaced = last.replaced

DeletePinboardStep(pb) ==
    /\ pb \in pinboards
    /\ pb \notin pinboards'
    /\ Ids(items') \subseteq Ids(items)

\* C21: delete_pinboard(p) deletes no item: every member of p is afterwards
\* the same row with pinboard_id NULL, so listed by get_items and counted by
\* count_items; every other row and every other pinboard is unchanged.
C21_DeletePinboardKeepsItems ==
    [][\A pb \in BoardIds : DeletePinboardStep(pb) =>
         LET members == {i \in items : i.pin = pb}
         IN  /\ items' = (items \ members) \cup {[i EXCEPT !.pin = NoPin] : i \in members}
             /\ Cardinality(items') = Cardinality(items)
             /\ count_items(items') = count_items(items) + Cardinality(members)
             /\ \A i \in members :
                  \A l \in get_items(items', Cardinality(items'), 0) :
                     \E k \in 1..Len(l) : l[k].id = i.id
             /\ pinboards' = pinboards \ {pb}]_vars

\* C21 witness: a pinboard was deleted and its former member is an unpinned
\* row next to a member of the other pinboard.
C21_Witness ==
    /\ last.op = "delete_pinboard"
    /\ pinboards = {"p2"}
    /\ \E i, j \in items : i.id # j.id /\ i.pin = NoPin /\ j.pin = "p2"

\* every listing get_items can return for the whole history
Listings(its) == get_items(its, Cardinality(its), 0)

captureVars == <<items, image_files, last, LAST_IMAGE_HASH, nextId, now, accepted>>

\* C24: a poll tick goes on to the settle delay exactly when the change
\* counter differs from the last observed value, and then records the new
\* value, which is greater than every value observed before; after the delay
\* the pipeline is dispatched exactly when has_content is true, and a tick
\* skipped as a transient clear changes nothing but keeps the recorded
\* value; no other step runs the pipeline.
C24_PollDispatch ==
    [][/\ \A t \in Tids :
            /\ (tpc[t] = "sleep" /\ tpc'[t] # "sleep") =>
                 /\ tpc'[t] = IF changeCount # last_change_count[t] THEN "settle" ELSE "loop"
                 /\ last_change_count'[t] = changeCount
                 /\ captureVars' = captureVars
            /\ tpc'[t] = "settle" =>
                 \/ tpc[t] = "settle"
                 \/ tpc[t] = "sleep" /\ last_change_count'[t] > last_change_count[t]
            /\ (tpc[t] = "settle" /\ tpc'[t] # "settle") =>
                 /\ last_change_count'[t] = last_change_count[t]
                 /\ pasteboard_has_content =>
                      last'.op = "capture" /\ last'.type = read_clipboard.type
                 /\ ~pasteboard_has_content => captureVars' = captureVars
            /\ tpc[t] # "sleep" => last_change_count'[t] = last_change_count[t]
                                      \/ tpc[t] = "init"
       /\ (last' # last /\ last'.op = "capture") =>
            \E t \in Tids : tpc[t] = "settle" /\ tpc'[t] # "settle" /\ pasteboard_has_content]_vars

\* C24 witness: the first copy was captured, then a clear was observed and
\* skipped, and the counter value of the clear is the recorded one.
C24_Witness ==
    /\ clipboard = ContentNone
    /\ changeCount = 2
    /\ \E t \in Tids : tpc[t] = "loop" /\ last_change_count[t] = 2
    /\ last.op = "capture" /\ last.outcome = "inserted"

\* ------------------------------------------------------------------------
\* The store lock
\* ------------------------------------------------------------------------
\* the threads that are inside a Database method
InStore ==
    {Monitor(t) : t \in {u \in Tids : tpc[u] \in InsidePositions}}
      \cup {Handler(h) : h \in {g \in Handlers : fpc[g].pc = "in"}}

\* C23: at most one thread is inside a Database method at a time, and it is
\* the one holding the lock; the monitor thread holds the lock only inside a
\* Database method, so not while it sleeps between polls or for the settle
\* delay, decodes an image, writes an image file, builds the item or emits.
C23_StoreExclusion ==
    /\ Cardinality(InStore) <= 1
    /\ InStore \subseteq {conn}
    /\ \A t \in Tids : tpc[t] \notin InsidePositions => conn # Monitor(t)

\* C23 witness: a command handler is inside a store operation while the
\* monitor thread writes an image file, and another handler waits for the
\* lock.
C23_Witness ==
    /\ \E t \in Tids : tpc[t] = "write_file"
    /\ \E h, g \in Handlers : fpc[h].pc = "in" /\ fpc[g].pc = "lock"
    /\ conn.kind = "handler"

\* ------------------------------------------------------------------------
\* Move-to-top and pinned items
\* ------------------------------------------------------------------------
\* a fault-free capture of a payload that exactly one item holds, a pinned one
PinnedOnlyCapture ==
    /\ MoveToTopStep
    /\ CleanCapture(last')
    /\ Cardinality(WithText(items, Payload(clipboard))) = 1
    /\ Unpinned(WithText(items, Payload(clipboard))) = {}

\* C25 as claimed: such a capture leaves the pinned item unchanged, inserts a
\* fresh unpinned item with a new id, names no replaced item, and the number
\* of rows grows by one.
C25_PinnedOnlyGrowsByOne ==
    [][PinnedOnlyCapture =>
         /\ \A i \in items : i.pin # NoPin => i \in items'
         /\ last'.newId \notin Ids(items)
         /\ \E n \in NewRows : n.id = last'.newId /\ n.pin = NoPin
         /\ last'.replaced = NoId /\ last'.evReplaced = NoId
         /\ Cardinality(items') = Cardinality(items) + 1]_vars

\* C25 amended: such a capture leaves every pinned item unchanged, inserts a
\* fresh unpinned item with a new id and names no replaced item; the only
\* rows missing afterwards are unpinned non-favorite rows the prune after the
\* insert removed, the new item among them when the limit keeps none, so the
\* number of rows grows by one when the prune removes nothing.
C25_PinnedOnlyFreshInsert ==
    [][PinnedOnlyCapture =>
         LET fresh == NewItem(last'.newId, ContentTypeOf(clipboard), Payload(clipboard), now)
             pruning == last'.pruneK >= 0
                          /\ Cardinality(Eligible(items)) + 1 > EffectiveKeep(last'.pruneK)
         IN  /\ \A i \in items : i.pin # NoPin => i \in items'
             /\ last'.newId \notin Ids(items)
             /\ last'.replaced = NoId /\ last'.evReplaced = NoId
             /\ last'.emitted /\ last'.evItem = last'.newId
             /\ NewRows \subseteq {fresh}
             /\ KeepsNew(last') => NewRows = {fresh}
             /\ RemovedRows \subseteq Eligible(items)
             /\ ~pruning => Cardinality(items') = Cardinality(items) + 1]_vars

\* C25 witness: the pinned item and the fresh unpinned item hold the same
\* payload, and the capture named no replaced item.
C25_Witness ==
    /\ CleanCapture(last)
    /\ last.replaced = NoId /\ last.emitted
    /\ \E i, n \in WithText(items, last.text) :
         /\ i.pin # NoPin
         /\ n.pin = NoPin /\ n.id = last.newId /\ n.id > i.id
    /\ Cardinality(WithText(items, last.text)) = 2

\* ------------------------------------------------------------------------
\* Clearing the history
\* ------------------------------------------------------------------------
\* C26: clear_history deletes exactly the rows that are unpinned and not
\* favorite; every row with pinboard_id set or is_favorite = true is
\* unchanged, and so are the pinboards and the settings.
C26_ClearHistoryFrame ==
    [][ClearHistory =>
         /\ \A i \in items : (i.pin # NoPin \/ i.fav) => i \in items'
         /\ \A i \in items : (i.pin = NoPin /\ ~i.fav) => i.id \notin Ids(items')
         /\ items' \subseteq items
         /\ pinboards' = pinboards
         /\ history_limit' = history_limit]_vars

\* C26 witness: the history was cleared; an unpinned favorite and a pinned
\* row are what is left of three.
C26_Witness ==
    /\ last.op = "clear_history"
    /\ nextId = 4
    /\ \E i, j \in items : i.pin = NoPin /\ i.fav /\ j.pin # NoPin /\ ~j.fav
    /\ Cardinality(items) = 2
    /\ pinboards # {}

\* ------------------------------------------------------------------------
\* Classification of texts and file lists
\* ------------------------------------------------------------------------
\* the characters of s from position lo on begin with prefix, letter case
\* ignored
HasPrefixAt(s, lo, prefix) ==
    /\ lo + Len(prefix) - 1 <= Len(s)
    /\ \A j \in 1..Len(prefix) : Lower(s[lo + j - 1]) = prefix[j]

\* s is a single line, contains a '.', and starts with a known prefix
LinkAsClaimed(s) ==
    /\ \A k \in 1..Len(s) : s[k] # "\n"
    /\ \E k \in 1..Len(s) : s[k] = "."
    /\ \E prefix \in UrlPrefixes : HasPrefixAt(s, 1, prefix)

\* the same of the part of s between its first and its last non-whitespace
\* character
LinkAfterTrim(s) ==
    LET solid == {k \in 1..Len(s) : s[k] \notin Whitespace}
    IN  /\ solid # {}
        /\ LET lo == CHOOSE k \in solid : \A j \in solid : k <= j
               hi == CHOOSE k \in solid : \A j \in solid : j <= k
           IN  /\ \A k \in lo..hi : s[k] # "\n"
               /\ \E k \in lo..hi : s[k] = "."
               /\ \E prefix \in UrlPrefixes :
                    Len(prefix) <= hi - lo + 1 /\ HasPrefixAt(s, lo, prefix)

\* a non-blank text was captured and inserted
TextCapture ==
    /\ DispatchStep
    /\ clipboard.type = "text"
    /\ last'.outcome = "inserted"

\* C27 as claimed: the item of a captured text s is a Link exactly when s has
\* no newline, contains a '.' and starts with http://, https://, ftp://,
\* file:// or www.; otherwise it is Text.
C27_LinkIffUrl ==
    [][TextCapture =>
         /\ NewRows # {}
         /\ \A n \in NewRows :
              n.content_type = IF LinkAsClaimed(clipboard.text) THEN "link" ELSE "text"]_vars

\* C27 amended: the three conditions are those of s with its leading and
\* trailing whitespace removed (the prefix compared ignoring letter case).
C27_LinkIffTrimmedUrl ==
    [][TextCapture =>
         /\ NewRows # {}
         /\ \A n \in NewRows :
              /\ n.content_text = clipboard.text
              /\ n.content_type = IF LinkAfterTrim(clipboard.text) THEN "link" ELSE "text"]_vars

\* C27 witness: a URL followed by a newline was stored as a Link.
C27_Witness ==
    \E i \in items :
        /\ i.content_type = "link"
        /\ i.content_text = <<"h", "t", "t", "p", ":", "/", "/", "a", ".", "b", "\n">>

\* the extension of a path: what follows its last '.', in lower case
Extension(path) ==
    LET dots == {k \in 1..Len(path) : path[k] = "."}
    IN  IF dots = {} THEN <<>>
        ELSE LET d == CHOOSE k \in dots : \A j \in dots : j <= k
             IN  [k \in 1..(Len(path) - d) |-> Lower(path[d + k])]

\* a non-empty file list was captured and inserted
FilesCapture ==
    /\ DispatchStep
    /\ clipboard.type = "files"
    /\ clipboard.files # <<>>
    /\ last'.outcome = "inserted"

\* C28: the item of a captured non-empty path list is Audio when every
\* path's extension is an audio extension, Documents when every path's
\* extension is a document extension, and Files otherwise.
C28_FileListClass ==
    [][FilesCapture =>
         LET paths == clipboard.files
             every(exts) == \A k \in 1..Len(paths) : Extension(paths[k]) \in exts
         IN  /\ NewRows # {}
             /\ \A n \in NewRows :
                  n.content_type = IF every(audio_extensions) THEN "audio"
                                   ELSE IF every(document_extensions) THEN "documents"
                                   ELSE "files"]_vars

\* C28 witness: one pdf plus one mp3 were stored as Files.
C28_Witness ==
    \E i \in items :
        /\ i.content_type = "files"
        /\ i.content_text = to_json(<<<<"/", "c", ".", "p", "d", "f">>,
                                       <<"/", "a", ".", "m", "p", "3">>>>)

\* ------------------------------------------------------------------------
\* What move-to-top deletes
\* ------------------------------------------------------------------------
\* the prune of capture l had nothing to remove
PruneIdle(l) == l.pruneK = -1 \/ l.pruneN <= EffectiveKeep(l.pruneK)

\* C29: a move-to-top capture (stored and announced without error, its
\* prune removing nothing) deletes at most one item, and every item it
\* deletes is the one its notification carries as replaced_item_id.
C29_MoveToTopDeletesReported ==
    [][(/\ MoveToTopStep
        /\ CleanCapture(last')
        /\ PruneIdle(last'))
         => /\ Cardinality(RemovedRows) <= 1
            /\ \A r \in RemovedRows : r.id = last'.evReplaced]_vars

\* ------------------------------------------------------------------------
\* The hash-gate after a lost image
\* ------------------------------------------------------------------------
\* the capture l was an image that passed the hash-gate and was then lost:
\* the write of its bytes or the insert of its row failed
LostImage(l) ==
    /\ l.op = "capture" /\ l.type = "image"
    /\ l.outcome = "lost"
    /\ l.fault \in {"disk", "insert"}

\* C30: when an image passed the hash-gate and its capture was lost, the
\* next delivery of the same image is not skipped by the hash-gate.
C30_LostImageNotSuppressed ==
    [][(/\ DispatchStep
        /\ clipboard.type = "image"
        /\ LostImage(last)
        /\ last.png = clipboard.png_data)
         => last'.outcome # "skipped"]_vars


\* ------------------------------------------------------------------------
\* Ignorable captures
\* ------------------------------------------------------------------------
\* the clipboard holds an unsupported format, a text of whitespace only or
\* an empty file list
IgnorableRead ==
    \/ clipboard.type = "empty"
    \/ clipboard.type = "text" /\ \A k \in 1..Len(clipboard.text) : clipboard.text[k] \in Whitespace
    \/ clipboard.type = "files" /\ Len(clipboard.files) = 0

\* C40: a dispatch that reads Empty, a whitespace-only text or an empty file
\* list leaves the items, the pinboards, the settings, the image files and
\* the last-fingerprint cell unchanged and emits no notification.
C40_IgnorableNoEffect ==
    [][(DispatchStep /\ IgnorableRead)
         => /\ items' = items
            /\ pinboards' = pinboards
            /\ history_limit' = history_limit
            /\ image_files' = image_files
            /\ LAST_IMAGE_HASH' = LAST_IMAGE_HASH
            /\ ~last'.emitted]_vars

\* C40 witness: an empty file list was skipped after a text and an image
\* had been stored.
C40_Witness ==
    /\ last.op = "capture" /\ last.type = "files" /\ last.outcome = "skipped"
    /\ LAST_IMAGE_HASH # InitialImageHash
    /\ \E i \in items : i.content_type = "image"


\* ------------------------------------------------------------------------
\* The retention bound
\* ------------------------------------------------------------------------
\* the last store operation was a capture whose insert succeeded
CompletedCapture == last.op = "capture" /\ last.outcome = "inserted"

\* C33 as claimed: after every completed capture the stored history_limit
\* is a number and the unpinned non-favorite items are at most that many.
C33_RetentionBoundAlways ==
    CompletedCapture =>
        /\ get_history_limit(history_limit).ok
        /\ Cardinality({i \in items : i.pin = NoPin /\ ~i.fav})
             <= get_history_limit(history_limit).val

\* C33 amended: the bound holds after a completed capture whose limit
\* lookup and prune succeeded, when the stored string parses as usize.
C33_RetentionBound ==
    (/\ CompletedCapture
     /\ last.fault \notin {"limit", "prune"}
     /\ get_history_limit(history_limit).ok)
        => Cardinality({i \in items : i.pin = NoPin /\ ~i.fav})
             <= get_history_limit(history_limit).val

\* C33 witness: a capture under history_limit = 1 found a second unpinned
\* non-favorite item, made eligible by a command, and pruned down to one.
C33_Witness ==
    /\ CompletedCapture
    /\ history_limit = "1"
    /\ last.replaced = NoId
    /\ last.pruneN >= 2
    /\ Cardinality({i \in items : i.pin = NoPin /\ ~i.fav}) = 1


\* ------------------------------------------------------------------------
\* The notified item
\* ------------------------------------------------------------------------
\* C34: when a capture has emitted its notification, the item the
\* notification carries is in the store; the prune before the emit has not
\* deleted it, whatever history_limit is.
C34_NotifiedItemStored ==
    (last.op = "capture" /\ last.emitted) => last.evItem \in {i.id : i \in items}


\* ------------------------------------------------------------------------
\* Unpinned items with the same payload
\* ------------------------------------------------------------------------
\* no two unpinned items of the store hold the same text or file payload
NoTwins(its) ==
    \A i \in its, j \in its :
        (/\ i.pin = NoPin /\ j.pin = NoPin
         /\ i.content_text # NoText
         /\ i.content_text = j.content_text) => i.id = j.id

\* the step takes an item off its pinboard (remove_item_from_pinboard, or
\* delete_pinboard through ON DELETE SET NULL)
Unpins == \E i \in items, j \in items' : i.id = j.id /\ i.pin # NoPin /\ j.pin = NoPin

\* C35 as claimed: no two unpinned items have the same payload, in every
\* reachable state.
C35_NoUnpinnedTwins == NoTwins(items)

\* C35 amended: captures whose move-to-top lookup succeeded, delete_item,
\* favorite toggles and pinboard assignment never create a second unpinned
\* item with a payload; only taking an item off its pinboard can.
C35_NoTwinsUnlessUnpinned ==
    [][(NoTwins(items) /\ ~Unpins /\ last'.fault # "lookup") => NoTwins(items')]_vars

\* C35 witness: a payload that is also held by a pinned item was captured
\* again and replaced its unpinned item, leaving one unpinned item with it.
C35_Witness ==
    /\ last.op = "capture" /\ last.outcome = "inserted" /\ last.replaced # NoId
    /\ \E p \in items : p.pin # NoPin /\ p.content_text = last.text
    /\ Cardinality({i \in items : i.pin = NoPin /\ i.content_text = last.text}) = 1


\* ------------------------------------------------------------------------
\* Commands that name a missing item
\* ------------------------------------------------------------------------
\* C38: delete_item, toggle_item_favorite and update_item_pinboard called
\* with an id that is not in the store leave items, pinboards and settings
\* unchanged and return Ok(false); get_item returns None.
C38_MissIsEffectFree ==
    [][(/\ last' # last
        /\ last'.op \in {"get_item", "delete_item", "toggle_item_favorite",
                         "update_item_pinboard"}
        /\ last'.arg \notin {i.id : i \in items})
         => /\ items' = items
            /\ pinboards' = pinboards
            /\ history_limit' = history_limit
            /\ last'.outcome = IF last'.op = "get_item" THEN "None" ELSE "Ok(false)"]_vars

\* C38 witness: delete_item was called with the id of an item deleted
\* before, next to items that are still stored, and returned Ok(false).
C38_Witness ==
    /\ last.op = "delete_item"
    /\ last.outcome = "Ok(false)"
    /\ last.arg < nextId - 1
    /\ items # {}


\* ------------------------------------------------------------------------
\* Ownership of image files
\* ------------------------------------------------------------------------
\* C37: every file of the images directory is referenced by the image_path
\* of exactly one stored item; a file whose item was removed or never
\* inserted does not exist.
C37_ImageFileOwned ==
    \A f \in image_files : Cardinality({i \in items : i.image_path = f.path}) = 1


\* ------------------------------------------------------------------------
\* Provenance of a re-captured payload
\* ------------------------------------------------------------------------
\* the row the move-to-top of this step reports as replaced
ReplacedRows == {i \in items : i.id = last'.replaced}

UnpinnedCaptured(its) == {i \in Unpinned(its) : i.content_text = Payload(cap.content)}

\* a capture of a text is in progress whose payload had an unpinned item when
\* the capture began: the item is still to be looked up, or it was replaced
Recapturing ==
    /\ cap.content.type = "text"
    /\ \/ cap.replaced # NoId
       \/ /\ \E t \in Tids : tpc[t] \in {"delete_lock", "delete_in"}
          /\ UnpinnedCaptured(items) # {}

\* handler h returns from get_items in this step
ListsItems(h) ==
    /\ fpc[h].pc = "in"
    /\ fpc[h].op = "get_items"
    /\ fpc'[h].pc = "returned"

\* the handlers that have toggled the favorite flag of the item with this id
Toggled(id) ==
    {h \in Handlers : fpc[h].op = "toggle_item_favorite" /\ fpc[h].id = id
                      /\ fpc[h].pc = "returned"}

\* C36: a get_items that runs during the re-capture of a payload lists
\* exactly one unpinned item with that payload, and when the re-capture is
\* over a favorite that one command set on the replaced item is set on the
\* unpinned item with the payload.
C36_MoveToTopAtomic ==
    [][/\ \A h \in Handlers :
            (Recapturing /\ ListsItems(h)) =>
                Cardinality({i \in UnpinnedCaptured(items) :
                                \E k \in DOMAIN fpc'[h].result :
                                    fpc'[h].result[k] = i.id}) = 1
       /\ (Recapturing /\ cap' = NoCap
             /\ Cardinality(Toggled(cap.replaced)) = 1
             /\ \A h \in Handlers : fpc[h].id # cap.item.id) =>
                \E i \in UnpinnedCaptured(items) : i.fav]_vars


\* ------------------------------------------------------------------------
\* The monitor after its thread has ended on its own
\* ------------------------------------------------------------------------
\* caller c gets the answer of is_monitoring in this step
AnswersMonitoring(c) == calls' # calls /\ cpc' = cpc /\ ret'[c] # ret[c]

\* the thread of the stored handle has panicked and no stop was requested
EndedOnItsOwn ==
    /\ MONITOR_HANDLE # NoTid
    /\ tpc[MONITOR_HANDLE] = "panicked"
    /\ ~SHOULD_STOP

\* C32: is_monitoring answers true only while a monitor thread is alive, and
\* a start_monitoring that finds the thread ended on its own, with no stop
\* requested, goes on to spawn a new thread.
C32_MonitoringMeansAlive ==
    [][\A c \in CallerIds :
          /\ (AnswersMonitoring(c) /\ ret'[c] = "monitoring") => \E t \in Tids : Live(t)
          /\ (EndedOnItsOwn /\ cpc[c] = "start_check" /\ cpc'[c] # "start_check") =>
                cpc'[c] = "start_spawn"]_vars


\* ------------------------------------------------------------------------
\* Stopping the push-notification variant
\* ------------------------------------------------------------------------
\* the adapter calls on_clipboard_change / on_clipboard_error of thread t
ChangeCallback(t) ==
    tpc[t] = "blocked" /\ last_change_count'[t] = last_change_count[t] + 1
ErrorCallback(t) ==
    tpc[t] = "blocked" /\ last'.errors = last.errors + 1 /\ last'.arg = t

Captured == <<items, image_files, nextId, now, accepted, LAST_IMAGE_HASH>>

====
